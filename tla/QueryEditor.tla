------------------------------ MODULE QueryEditor ------------------------------
(***************************************************************************)
(* The query editor: a text with a cursor, and the history of executed     *)
(* statements that Up and Down recall while a draft is set aside.  Others  *)
(* write the text too: actions, bookmarks, schema navigation, and every    *)
(* statement that starts, the automatic retry of one included.             *)
(*                                                                         *)
(* A text is the bytes of its UTF-8 encoding: a character is a leading     *)
(* byte and the bytes that continue it, and the cursor counts bytes.       *)
(* MaxLength bounds what is typed; the code has no bound.                  *)
(***************************************************************************)
EXTENDS Naturals, Sequences, SequencesExt, FiniteSetsExt

CONSTANTS
  Leading,      \* bytes that begin a character
  Continuing,   \* bytes that only continue one
  Space,        \* characters of one byte that trim() removes
  Typed,        \* the characters a key can insert
  Generated,    \* statements written by actions, bookmarks and navigation
  Snippets,     \* texts that an action inserts
  HistoryLimit, \* 100
  MaxLength     \* bytes of a typed text

Bytes == Leading \union Continuing

(* A character begins at the first byte and after a character of one byte.  *)
Texts == {t \in Seq(Bytes) :
            \A i \in DOMAIN t : i = 1 \/ t[i - 1] \in Space => t[i] \in Leading}

None == <<"none">>

ASSUME BytesAssumption ==
  /\ Leading \intersect Continuing = {} /\ Space \subseteq Leading
  /\ "none" \notin Bytes
ASSUME TextsAssumption == Typed \union Generated \union Snippets \subseteq Texts \ {<<>>}
ASSUME LimitsAssumption == HistoryLimit \in Nat \ {0} /\ MaxLength \in Nat

VARIABLES
  text,    \* query_editor_text
  cursor,  \* query_cursor
  list,    \* query_history
  index,   \* query_history_index + 1; 0 for None
  draft,   \* query_history_draft
  inflight \* inflight_query_sql of a worker that may fail

vars == <<text, cursor, list, index, draft, inflight>>

TypeOK ==
  /\ {text, draft, inflight} \subseteq Texts \union {None} /\ text # None
  /\ cursor \in 0 .. Len(text)
  /\ list \in Seq(Texts \ {<<>>}) /\ Len(list) <= HistoryLimit
  /\ index \in 0 .. Len(list)
  /\ index # 0 => draft # None

-----------------------------------------------------------------------------
(* Texts. *)

(* is_char_boundary *)
IsBoundary(t, i) == i = 0 \/ i = Len(t) \/ (i \in 1 .. Len(t) - 1 /\ t[i + 1] \in Leading)

Boundaries(t) == {i \in 0 .. Len(t) : IsBoundary(t, i)}

Clamped == Max({i \in Boundaries(text) : i <= cursor})

PreviousBoundary(i) == IF i = 0 THEN 0 ELSE Max({j \in Boundaries(text) : j < i})

(* Seeded fault: the arrow moves by a byte.                                *)
NextByte(i) == Min({i + 1, Len(text)})

NextBoundary(i) == IF i = Len(text) THEN i ELSE Min({j \in Boundaries(text) : j > i})

Trim(t) ==
  LET solid == {i \in DOMAIN t : t[i] \notin Space}
  IN IF solid = {} THEN <<>> ELSE SubSeq(t, Min(solid), Max(solid))

(* Seeded fault: the oldest statement is dropped one too late.             *)
RecordedLate(sql) ==
  IF Trim(sql) = <<>> \/ (list # <<>> /\ Last(list) = Trim(sql)) THEN list
  ELSE LET longer == Append(list, Trim(sql))
       IN IF Len(list) > HistoryLimit THEN Tail(longer) ELSE longer

(* record_query_history *)
Recorded(sql) ==
  IF Trim(sql) = <<>> \/ (list # <<>> /\ Last(list) = Trim(sql)) THEN list
  ELSE LET longer == Append(list, Trim(sql))
       IN IF Len(longer) > HistoryLimit THEN Tail(longer) ELSE longer

Show(t) == text' = t /\ cursor' = Len(t)

Leave == index' = 0 /\ draft' = None

-----------------------------------------------------------------------------
(* Keys. *)

Init ==
  /\ text \in Generated /\ cursor = Len(text)
  /\ list = <<>>
  /\ index = 0 /\ draft = None
  /\ inflight = None

(* insert_text_at_query_cursor leaves the history but keeps its draft. *)
Insert(t) ==
  /\ Len(text) + Len(t) <= MaxLength
  /\ text' = SubSeq(text, 1, Clamped) \o t \o SubSeq(text, Clamped + 1, Len(text))
  /\ cursor' = Clamped + Len(t)
  /\ index' = 0
  /\ UNCHANGED <<list, draft, inflight>>

Backspace ==
  /\ Clamped # 0
  /\ text' = SubSeq(text, 1, PreviousBoundary(Clamped))
               \o SubSeq(text, Clamped + 1, Len(text))
  /\ cursor' = PreviousBoundary(Clamped)
  /\ index' = 0
  /\ UNCHANGED <<list, draft, inflight>>

Move ==
  /\ cursor' \in {PreviousBoundary(Clamped), NextBoundary(Clamped)}
  /\ UNCHANGED <<text, list, index, draft, inflight>>

Clear ==
  /\ Show(<<>>) /\ Leave
  /\ UNCHANGED <<list, inflight>>

(* Up. *)
UsePrevious ==
  /\ list # <<>>
  /\ index' = IF index = 0 THEN Len(list) ELSE Max({index - 1, 1})
  /\ draft' = IF index = 0 THEN text ELSE draft
  /\ Show(list[index'])
  /\ UNCHANGED <<list, inflight>>

(* Down, and Down from the newest statement. *)
UseNext ==
  /\ index # 0 /\ index < Len(list)
  /\ index' = index + 1
  /\ Show(list[index + 1])
  /\ UNCHANGED <<list, draft, inflight>>

Return ==
  /\ index # 0 /\ index = Len(list)
  /\ Show(IF draft = None THEN text ELSE draft)
  /\ Leave
  /\ UNCHANGED <<list, inflight>>

-----------------------------------------------------------------------------
(* Statements.  Session says when they start and end; one that is          *)
(* confirmed, replayed or tried again from the error panel need not be the *)
(* text on screen.                                                         *)

Start(sql) ==
  /\ Trim(sql) # <<>>
  /\ list' = Recorded(sql)
  /\ Leave
  /\ inflight' = sql
  /\ Show(sql)

RunCurrentQuery == Start(Trim(text))

RunAnother == \E sql \in Generated \union ToSet(list) : Start(sql)

(* Safe mode puts what it asks about into the editor. *)
Ask ==
  /\ \E sql \in Generated \union {Trim(text)} : Show(sql)
  /\ UNCHANGED <<list, index, draft, inflight>>

(* The retry of a failed statement shows it again, whatever the user is    *)
(* doing in the editor; what Up had set aside stays.                       *)
Retry ==
  /\ inflight # None
  /\ Show(inflight)
  /\ UNCHANGED <<list, index, draft, inflight>>

StatementEnds ==
  /\ inflight # None
  /\ inflight' = None
  /\ UNCHANGED <<text, cursor, list, index, draft>>

-----------------------------------------------------------------------------
(* Other writers: actions, bookmarks and every newly selected table.       *)

ReplaceText ==
  /\ \E sql \in Generated : Show(sql)
  /\ Leave
  /\ UNCHANGED <<list, inflight>>

Next ==
  \/ \E t \in Typed \union Snippets : Insert(t)
  \/ Backspace \/ Move \/ Clear
  \/ UsePrevious \/ UseNext \/ Return
  \/ RunCurrentQuery \/ RunAnother \/ Ask
  \/ Retry \/ StatementEnds
  \/ ReplaceText

Spec == Init /\ [][Next]_vars

-----------------------------------------------------------------------------
(* The cursor never stands inside a character: the editor is drawn from    *)
(* the text before the cursor (query_cursor_line_col), without the clamp   *)
(* the editing keys begin with, and a slice inside a character panics.     *)
CursorOnBoundary == IsBoundary(text, cursor)
=============================================================================
