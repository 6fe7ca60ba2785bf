-------------------------------- MODULE SafeMode --------------------------------
(***************************************************************************)
(* Safe mode: how the text of a statement is assessed, and the guard whose *)
(* tokens let a risky statement through once it is confirmed, together     *)
(* with the question the runtime keeps open.  Session builds on both: its  *)
(* statements are read-only or not, and its confirmation never fails.      *)
(*                                                                         *)
(* A text is a sequence of characters; a word that means something is one  *)
(* character.  A fingerprint is the normalized text itself: collisions of  *)
(* the 64-bit hash are left out.                                           *)
(***************************************************************************)
EXTENDS Naturals, Sequences, SequencesExt, FiniteSets, FiniteSetsExt

CONSTANTS
  Texts,     \* the texts that are executed: the one under test
  Other,     \* and one that is executed besides it
  ReadWords, \* SELECT, SHOW, ...: words of one character
  NonceLimit \* where the token counter saturates, u64::MAX

NewLine == "newline"
Space   == {NewLine, "space"}
Quotes  == {"'", "double", "backtick"}

ASSUME TextsAssumption == Texts \subseteq Seq(STRING) /\ Other \in Seq(STRING)
ASSUME NonceAssumption == NonceLimit \in Nat \ {0}

VARIABLES
  text,    \* the text under test
  enabled, \* safe_mode_guard.enabled
  nonce,   \* safe_mode_guard.nonce
  tokens,  \* safe_mode_guard.pending_confirmations: nonce and fingerprint
  asked    \* pending_confirmation: its token and its statement

guardVars == <<text, enabled, nonce, tokens, asked>>

None == [nonce |-> 0]

-----------------------------------------------------------------------------
(* Assessment. *)

Trim(t) ==
  LET solid == {i \in DOMAIN t : t[i] \notin Space}
  IN IF solid = {} THEN <<>> ELSE SubSeq(t, Min(solid), Max(solid))

(* The scanner between two characters: what it is in ("plain", "line",     *)
(* "block" or the quote that opened), the current statement and those      *)
(* before it, and whether the next character was consumed ahead.           *)
Scanner == [mode |-> "plain", current |-> <<>>, statements |-> <<>>, skip |-> FALSE]

Ended(s) ==
  [s EXCEPT !.current = <<>>,
            !.statements = IF Trim(s.current) = <<>> THEN @ ELSE Append(@, Trim(s.current))]

At(t, i) == IF i \in DOMAIN t THEN t[i] ELSE "end"

(* Seeded fault: the star that opens a comment may also close it.          *)
ScannedInPlace(t, s, i) ==
  LET ch == t[i]  pair == <<ch, At(t, i + 1)>> IN
  IF s.skip THEN [s EXCEPT !.skip = FALSE] ELSE
  CASE s.mode = "line" -> [s EXCEPT !.mode = IF ch = NewLine THEN "plain" ELSE "line"]
    [] s.mode = "block" ->
         IF pair = <<"*", "/">> THEN [s EXCEPT !.mode = "plain", !.skip = TRUE] ELSE s
    [] s.mode = "plain" /\ pair = <<"-", "-">> -> [s EXCEPT !.mode = "line", !.skip = TRUE]
    [] s.mode = "plain" /\ ch = "#" -> [s EXCEPT !.mode = "line"]
    [] s.mode = "plain" /\ pair = <<"/", "*">> -> [s EXCEPT !.mode = "block"]
    [] s.mode = "plain" /\ ch = ";" -> Ended(s)
    [] s.mode \in {"plain", ch} /\ ch \in Quotes ->
         [s EXCEPT !.mode = IF @ = ch THEN "plain" ELSE ch, !.current = Append(@, ch)]
    [] OTHER -> [s EXCEPT !.current = Append(@, ch)]

(* One turn of split_statements' loop.                                     *)
Scanned(t, s, i) ==
  LET ch == t[i]  pair == <<ch, At(t, i + 1)>> IN
  IF s.skip THEN [s EXCEPT !.skip = FALSE] ELSE
  CASE s.mode = "line" -> [s EXCEPT !.mode = IF ch = NewLine THEN "plain" ELSE "line"]
    [] s.mode = "block" ->
         IF pair = <<"*", "/">> THEN [s EXCEPT !.mode = "plain", !.skip = TRUE] ELSE s
    [] s.mode = "plain" /\ pair = <<"-", "-">> -> [s EXCEPT !.mode = "line", !.skip = TRUE]
    [] s.mode = "plain" /\ ch = "#" -> [s EXCEPT !.mode = "line"]
    [] s.mode = "plain" /\ pair = <<"/", "*">> -> [s EXCEPT !.mode = "block", !.skip = TRUE]
    [] s.mode = "plain" /\ ch = ";" -> Ended(s)
    [] s.mode \in {"plain", ch} /\ ch \in Quotes ->
         [s EXCEPT !.mode = IF @ = ch THEN "plain" ELSE ch, !.current = Append(@, ch)]
    [] OTHER -> [s EXCEPT !.current = Append(@, ch)]

(* split_statements *)
Statements(t) ==
  LET scanned[i \in 0 .. Len(t)] ==
        IF i = 0 THEN Scanner ELSE Scanned(t, scanned[i - 1], i)
  IN  Ended(scanned[Len(t)]).statements

FirstWord(statement) ==
  LET blanks == {i \in DOMAIN statement : statement[i] \in Space}
  IN IF blanks = {} THEN statement ELSE SubSeq(statement, 1, Min(blanks) - 1)

IsSafeReadOnly(t) ==
  LET statements == Statements(t) IN
  /\ Len(statements) <= 1
  /\ \A i \in DOMAIN statements : FirstWord(statements[i]) \in ReadWords

-----------------------------------------------------------------------------
(* The guard, as execute_sql_with_guard, submit and the F3 key use it.     *)

GuardInit ==
  /\ text \in Texts
  /\ enabled = TRUE
  /\ nonce = 0
  /\ tokens = {}
  /\ asked = None

(* The current profile is read-only: the guard is not asked. *)
Blocked(sql) ==
  /\ ~IsSafeReadOnly(sql)
  /\ asked' = None
  /\ UNCHANGED <<text, enabled, nonce, tokens>>

Allowed(sql) ==
  /\ ~enabled \/ IsSafeReadOnly(sql)
  /\ asked' = None
  /\ UNCHANGED <<text, enabled, nonce, tokens>>

(* Seeded fault: the question before is kept, for the statement of this    *)
(* one.                                                                    *)
AskedUnderOldToken(sql) ==
  /\ enabled /\ ~IsSafeReadOnly(sql)
  /\ nonce' = Min({nonce + 1, NonceLimit})
  /\ LET token == [nonce |-> nonce', print |-> Statements(sql)] IN
     /\ tokens' = tokens \union {token}
     /\ asked' = IF asked = None THEN [nonce |-> nonce', token |-> token, sql |-> sql]
                 ELSE [asked EXCEPT !.sql = sql]
  /\ UNCHANGED <<text, enabled>>

(* evaluate: RequireConfirmation.  The token of a question that nobody     *)
(* answered stays behind.                                                  *)
Asked(sql) ==
  /\ enabled /\ ~IsSafeReadOnly(sql)
  /\ nonce' = Min({nonce + 1, NonceLimit})
  /\ LET token == [nonce |-> nonce', print |-> Statements(sql)] IN
     /\ tokens' = tokens \union {token}
     /\ asked' = [nonce |-> nonce', token |-> token, sql |-> sql]
  /\ UNCHANGED <<text, enabled>>

Execute == \E sql \in {text, Other} : Blocked(sql) \/ Allowed(sql) \/ Asked(sql)

Accepted(token, sql) == token \in tokens /\ token.print = Statements(sql)

(* Enter takes the open question and its token, accepted or not. *)
Confirm ==
  /\ asked # None
  /\ tokens' = tokens \ {asked.token}
  /\ asked' = None
  /\ UNCHANGED <<text, enabled, nonce>>

ToggleSafeMode ==
  /\ enabled' = ~enabled
  /\ tokens' = IF enabled THEN {} ELSE tokens
  /\ asked' = None
  /\ UNCHANGED <<text, nonce>>

GuardNext == Execute \/ Confirm \/ ToggleSafeMode

GuardSpec == GuardInit /\ [][GuardNext]_guardVars

-----------------------------------------------------------------------------
(* What splitting means.  A text is a sequence of lexemes: quoted texts,   *)
(* comments and single characters; what is opened last may stay open.      *)

StartsLine(t, a)  == t[a] = "#" \/ (t[a] = "-" /\ At(t, a + 1) = "-")
StartsBlock(t, a) == t[a] = "/" /\ At(t, a + 1) = "*"

EndsAt(t, ends) == IF ends = {} THEN Len(t) ELSE Min(ends)

EndOfLexeme(t, a) ==
  CASE t[a] \in Quotes   -> EndsAt(t, {b \in a + 1 .. Len(t) : t[b] = t[a]})
    [] StartsLine(t, a)  -> EndsAt(t, {b \in a .. Len(t) : t[b] = NewLine})
    [] StartsBlock(t, a) -> EndsAt(t, {b \in a + 3 .. Len(t) : t[b - 1] = "*" /\ t[b] = "/"})
    [] OTHER -> a

Lexemes(t) ==
  CHOOSE starts \in SUBSET DOMAIN t :
    \A a \in DOMAIN t :
      a \in starts <=> a = 1 \/ \E b \in starts : b < a /\ EndOfLexeme(t, b) = a - 1

Comments(t) ==
  UNION {a .. EndOfLexeme(t, a) :
           a \in {b \in Lexemes(t) : StartsLine(t, b) \/ StartsBlock(t, b)}}

Separators(t) == {a \in Lexemes(t) : t[a] = ";"}

Interval(a, b) == [k \in 1 .. b - a + 1 |-> a + k - 1]

(* The members of a sequence that are not to be dropped, in their order.   *)
Without(s, dropped) ==
  LET upTo[i \in 0 .. Len(s)] ==
        IF i = 0 THEN <<>>
        ELSE IF s[i] \in dropped THEN upTo[i - 1] ELSE Append(upTo[i - 1], s[i])
  IN  upTo[Len(s)]

(* What is left between two separators without the comments. *)
Piece(t, from, to) ==
  LET kept == Without(Interval(from + 1, to - 1), Comments(t))
  IN  Trim([k \in DOMAIN kept |-> t[kept[k]]])

(* Both ends of the text separate as a semicolon does. *)
Pieces(t) ==
  LET bounds == Without(Interval(0, Len(t) + 1), DOMAIN t \ Separators(t))
      pieces == [k \in 1 .. Len(bounds) - 1 |-> Piece(t, bounds[k], bounds[k + 1])]
  IN  Without(pieces, {<<>>})

(* A semicolon ends a statement exactly when it is a lexeme of its own,    *)
(* wherever quotes and comments open, close or stay open: no statement is  *)
(* hidden in what the scanner takes for a comment or a literal, none is    *)
(* invented (split_statements against the definition above).               *)
SplitsAtSeparators == Statements(text) = Pieces(text)

(* The token of the open question is live and is the one of the statement  *)
(* it will be confirmed for, whatever was asked, answered, blocked or      *)
(* switched off since, and when the counter no longer tells tokens apart:  *)
(* Enter never fails, which Session takes for granted (query.rs:22-30).    *)
OpenQuestionCanBeConfirmed == asked # None => Accepted(asked.token, asked.sql)
=============================================================================
