---------------------------- MODULE ProfileManager ----------------------------
(***************************************************************************)
(* The saved connection profiles: the file, the FileProfilesStore read     *)
(* from it, the manager pane that renames, marks and deletes them, and the *)
(* connects that save the profile they used when their worker is done.     *)
(*                                                                         *)
(* A store is a function from the names it holds, which stand for strings  *)
(* in the order Vec::sort gives them, to what its profile sets: the two    *)
(* markers, and "hidden" for the TLS and keyring options that the wizard   *)
(* has no field for.  A write of the file may be refused, or cut short by  *)
(* an error or by the end of the program.                                  *)
(***************************************************************************)
EXTENDS Naturals, FiniteSets, FiniteSetsExt, Functions

CONSTANTS
  Names, \* the profile names that occur
  Flags  \* what a profile may set

Markers == {"default", "quick"}
NoName  == 0

ASSUME NamesAssumption ==
  Names \subseteq Nat \ {NoName} /\ Names # {} /\ IsFiniteSet(Names)
ASSUME FlagsAssumption == Flags \subseteq Markers \union {"hidden"}

VARIABLES
  disk,      \* the profiles of profiles.toml, if it can be parsed
  file,      \* its format
  opened,    \* profile_store.is_some()
  store,     \* the profiles of profile_store
  saved,     \* history: the last persist, or load, succeeded
  inManager, \* pane = ProfileBookmarks, with manager_lane = Profiles
  cursor,    \* manager_profile_cursor
  renaming,  \* manager_rename_mode
  buffer,    \* manager_rename_buffer, trimmed
  chosen,    \* history: the name the rename was started on
  flight,    \* the profile of the connect worker
  connected, \* active_connection_profile.is_some()
  recent     \* active_connection_profile, or last_connect_profile without one

fileVars    == <<disk, file>>
storeVars   == <<opened, store>>
renameVars  == <<renaming, buffer, chosen>>
connectVars == <<flight, connected, recent>>
vars == <<fileVars, storeVars, saved, inManager, cursor, renameVars, connectVars>>

Stores == UNION {[S -> SUBSET Flags] : S \in SUBSET Names}
Empty  == [n \in {} |-> {}]

Profile == [name : Names, flags : SUBSET Flags]
NoProfile == [name |-> NoName, flags |-> {}]

Exclusive(s) ==
  \A n, m \in DOMAIN s : n # m => s[n] \intersect s[m] \intersect Markers = {}

TypeOK ==
  /\ disk \in Stores
  /\ file \in {"current", "legacy", "garbled"}
  /\ opened \in BOOLEAN
  /\ store \in Stores
  /\ saved \in BOOLEAN
  /\ inManager \in BOOLEAN
  /\ cursor \in 0 .. Cardinality(Names) - 1
  /\ renaming \in BOOLEAN
  /\ buffer \in Names \union {NoName}
  /\ chosen \in Names \union {NoName}
  /\ flight \in Profile \union {NoProfile}
  /\ connected \in BOOLEAN
  /\ recent \in Profile \union {NoProfile}

(* A file this program wrote, or one of an earlier version whose migration  *)
(* could not be written back.                                               *)
Init ==
  /\ disk \in {s \in Stores : Exclusive(s)}
  /\ file \in {"current", "legacy"}
  /\ opened = (file = "current")
  /\ store = IF opened THEN disk ELSE Empty
  /\ saved = TRUE
  /\ inManager = FALSE
  /\ cursor = 0
  /\ renaming = FALSE
  /\ buffer = NoName
  /\ chosen = NoName
  /\ flight = NoProfile
  /\ connected = FALSE
  /\ recent = NoProfile
-----------------------------------------------------------------------------
(* FileProfilesStore *)

Index(s, n) == Cardinality({m \in DOMAIN s : m < n})

Clamped(s, i) == Min({i, Cardinality(DOMAIN s) - 1})

(* The name at the cursor, clamped to the list, as it is drawn. *)
NameAt(s, i) == CHOOSE n \in DOMAIN s : Index(s, n) = Clamped(s, i)

Upsert(s, n, flags) ==
  [m \in DOMAIN s \union {n} |-> IF m = n THEN flags ELSE s[m]]

Without(s, n) == Restrict(s, DOMAIN s \ {n})

(* Seeded fault: marking a profile leaves the one marked before. *)
MarkedToo(s, n, marker) ==
  [m \in DOMAIN s |-> IF m = n THEN s[m] \union {marker} ELSE s[m]]

Marked(s, n, marker) ==
  [m \in DOMAIN s |-> IF m = n THEN s[m] \union {marker} ELSE s[m] \ {marker}]

(* What may be left of a file holding s when its write is cut short and the *)
(* rest can still be parsed: the profiles before some name, and of that one *)
(* what was written by then, the markers last.                              *)
CutShort(s) ==
  LET before(n) == Restrict(s, {m \in DOMAIN s : m < n})
  IN  {before(n) : n \in DOMAIN s} \union
      {Upsert(before(n), n, s[n] \ lost) :
         n \in DOMAIN s, lost \in {Flags, Markers, {"quick"}}}

Persist(s) ==
  \/ disk' = s /\ file' = "current" /\ saved' = TRUE
  \/ UNCHANGED fileVars /\ saved' = FALSE
  \/ disk' \in CutShort(s) \union {Empty} /\ file' = "current" /\ saved' = FALSE
  \/ disk' = Empty /\ file' = "garbled" /\ saved' = FALSE

(* Seeded fault: the migrated profiles are only kept in memory. *)
MigrateInMemory == UNCHANGED fileVars /\ saved' = TRUE

Migrate == Persist(disk)

(* load_from_path: a legacy file is migrated and written back, and is not   *)
(* loaded when that fails.                                                  *)
Load ==
  /\ \/ file = "current" /\ saved' = TRUE /\ UNCHANGED fileVars
     \/ file = "garbled" /\ saved' = FALSE /\ UNCHANGED fileVars
     \/ file = "legacy" /\ Migrate
  /\ opened' = saved'

(* The program ends, by any means, and is started again. *)
Restart ==
  /\ Load
  /\ store' = IF opened' THEN disk ELSE Empty
  /\ inManager' = FALSE
  /\ cursor' = 0
  /\ renaming' = FALSE /\ buffer' = NoName /\ chosen' = NoName
  /\ flight' = NoProfile /\ connected' = FALSE /\ recent' = NoProfile
-----------------------------------------------------------------------------
(* The manager pane *)

ClampedCursor == IF store = Empty THEN 0 ELSE Clamped(store, cursor)

OpenManager ==
  /\ inManager' = TRUE
  /\ cursor' = ClampedCursor
  /\ renaming' = FALSE /\ buffer' = NoName /\ chosen' = NoName
  /\ UNCHANGED <<fileVars, storeVars, saved, connectVars>>

(* Tab goes round the panes and F6 to the wizard, in rename mode as well;   *)
(* Left and Right, out of it, to the bookmarks lane and back.               *)
SwitchPane ==
  /\ inManager' = ~inManager
  /\ UNCHANGED <<fileVars, storeVars, saved, cursor, renameVars, connectVars>>

(* Seeded fault: rename mode does not hold back the other keys. *)
BrowsingAnyway == inManager

Browsing == inManager /\ ~renaming

(* Seeded fault: the cursor may go past the last entry. *)
CursorBelowUnclamped == ClampedCursor + 1

CursorBelow == Clamped(store, ClampedCursor + 1)

(* Up or Down; on an empty list every key does no more than this. *)
MoveCursor ==
  /\ Browsing
  /\ \/ cursor' = IF ClampedCursor = 0 THEN 0 ELSE ClampedCursor - 1
     \/ store # Empty /\ cursor' = CursorBelow
  /\ UNCHANGED <<fileVars, storeVars, saved, inManager, renameVars, connectVars>>

StartRename ==
  /\ Browsing /\ store # Empty
  /\ cursor' = ClampedCursor
  /\ renaming' = TRUE
  /\ buffer' = NameAt(store, cursor)
  /\ chosen' = NameAt(store, cursor)
  /\ UNCHANGED <<fileVars, storeVars, saved, inManager, connectVars>>

TypeName(n) ==
  /\ inManager /\ renaming
  /\ buffer' = n
  /\ UNCHANGED <<fileVars, storeVars, saved, inManager, cursor, renaming, chosen,
                 connectVars>>

CancelRename ==
  /\ inManager /\ renaming
  /\ renaming' = FALSE /\ buffer' = NoName /\ chosen' = NoName
  /\ UNCHANGED <<fileVars, storeVars, saved, inManager, cursor, connectVars>>

(* The other guards of rename_selected_profile: an empty name, one that is  *)
(* taken, or nothing to rename leave everything as it was; the same name    *)
(* ends the rename.                                                         *)
MayRename == buffer # NoName /\ store # Empty /\ buffer \notin DOMAIN store

(* Seeded fault: a connect that follows does not learn of the new name.     *)
RecentForgotten(old) == recent

(* What a reconnect uses after the profile called old was renamed.          *)
RecentRenamed(old) ==
  IF recent.name = old THEN [name |-> buffer, flags |-> store'[buffer]] ELSE recent

CommitRename ==
  LET old == NameAt(store, cursor)
  IN  /\ inManager /\ renaming
      /\ MayRename
      /\ store' = Without(Upsert(store, buffer, store[old]), old)
      /\ Persist(store')
      /\ IF saved'
         THEN /\ renaming' = FALSE /\ buffer' = NoName /\ chosen' = NoName
              /\ cursor' = Index(store', buffer)
              /\ recent' = RecentRenamed(old)
         ELSE UNCHANGED <<cursor, renameVars, recent>>
      /\ UNCHANGED <<opened, inManager, flight, connected>>

SameName ==
  /\ inManager /\ renaming
  /\ store # Empty /\ buffer = NameAt(store, cursor)
  /\ renaming' = FALSE /\ buffer' = NoName /\ chosen' = NoName
  /\ UNCHANGED <<fileVars, storeVars, saved, inManager, cursor, connectVars>>

MarkProfile(marker) ==
  /\ Browsing /\ store # Empty
  /\ store' = Marked(store, NameAt(store, cursor), marker)
  /\ Persist(store')
  /\ UNCHANGED <<opened, inManager, cursor, renameVars, connectVars>>

DeleteProfile ==
  /\ Browsing /\ store # Empty
  /\ store' = Without(store, NameAt(store, cursor))
  /\ Persist(store')
  /\ cursor' = IF saved' /\ cursor > 0 /\ cursor >= Cardinality(DOMAIN store')
               THEN cursor - 1 ELSE cursor
  /\ UNCHANGED <<opened, inManager, renameVars, connectVars>>

(* Enter on a profile loads it into the wizard. *)
OpenProfile ==
  /\ Browsing /\ store # Empty
  /\ cursor' = ClampedCursor
  /\ recent' = IF connected THEN recent
               ELSE [name |-> NameAt(store, cursor), flags |-> store[NameAt(store, cursor)]]
  /\ inManager' = FALSE
  /\ UNCHANGED <<fileVars, storeVars, saved, renameVars, flight, connected>>
-----------------------------------------------------------------------------
(* Connecting *)

StartConnect(p) ==
  /\ flight' = p
  /\ recent' = IF connected THEN recent ELSE p

(* F5 in the wizard, whose form holds any name and no hidden option. *)
ConnectFromWizard(n) ==
  /\ ~inManager
  /\ flight = NoProfile
  /\ StartConnect([name |-> n, flags |-> {}])
  /\ UNCHANGED <<fileVars, storeVars, saved, inManager, cursor, renameVars, connected>>

QuickProfiles == {n \in DOMAIN store : "quick" \in store[n]}

(* F5 in the manager takes the profile at the cursor, or from the bookmarks *)
(* lane the first one marked for quick reconnects.                          *)
ConnectFromManager ==
  /\ Browsing /\ store # Empty
  /\ flight = NoProfile
  /\ cursor' = ClampedCursor
  /\ \E n \in {NameAt(store, cursor)} \union {q \in QuickProfiles : q = Min(QuickProfiles)} :
       StartConnect([name |-> n, flags |-> store[n]])
  /\ UNCHANGED <<fileVars, storeVars, saved, inManager, renameVars, connected>>

(* The error panel's reconnect, and the one after a lost connection, which  *)
(* does not wait for a connect under way.                                   *)
Reconnect ==
  /\ flight = NoProfile \/ connected
  /\ recent # NoProfile
  /\ StartConnect(recent)
  /\ UNCHANGED <<fileVars, storeVars, saved, inManager, cursor, renameVars, connected>>

(* The store after a connect: the markers are the stored ones if the name   *)
(* is still there, everything else is what the connect used.                *)
SavedProfile(s, p) ==
  Upsert(s, p.name,
         IF p.name \in DOMAIN s
         THEN (p.flags \ Markers) \union (s[p.name] \intersect Markers)
         ELSE p.flags)

(* Without a store, apply_connected_profile reads the file for the occasion *)
(* and writes it back; migrating a legacy file may be as far as it gets.    *)
SaveWithoutStore ==
  CASE file = "garbled" -> UNCHANGED <<fileVars, saved>>
    [] file = "current" -> Persist(SavedProfile(disk, flight))
    [] file = "legacy"  -> Persist(SavedProfile(disk, flight)) \/ Persist(disk)

(* apply_connected_profile *)
ConnectSucceeded ==
  /\ flight # NoProfile
  /\ connected' = TRUE
  /\ recent' = flight
  /\ flight' = NoProfile
  /\ inManager' = FALSE
  /\ IF opened
     THEN /\ store' = SavedProfile(store, flight)
          /\ Persist(store')
     ELSE SaveWithoutStore /\ UNCHANGED store
  /\ UNCHANGED <<opened, cursor, renameVars>>

ConnectFailed ==
  /\ flight # NoProfile
  /\ flight' = NoProfile
  /\ UNCHANGED <<fileVars, storeVars, saved, inManager, cursor, renameVars, connected,
                 recent>>

Next ==
  \/ OpenManager \/ SwitchPane \/ MoveCursor
  \/ StartRename \/ CancelRename \/ CommitRename \/ SameName
  \/ \E n \in Names \union {NoName} : TypeName(n)
  \/ \E marker \in Markers \intersect Flags : MarkProfile(marker)
  \/ DeleteProfile \/ OpenProfile
  \/ \E n \in Names : ConnectFromWizard(n)
  \/ ConnectFromManager \/ Reconnect
  \/ ConnectSucceeded \/ ConnectFailed
  \/ Restart

Spec == Init /\ [][Next]_vars

-----------------------------------------------------------------------------
(* What the program holds is what the file holds unless the last write      *)
(* failed: every change is saved in the step that makes it.                 *)
InSync == opened /\ saved => disk = store /\ file = "current"

(* A marker stays with one profile through marks, renames, deletes, failed  *)
(* writes and restarts; only a connect to a profile that was deleted or     *)
(* renamed since it was asked for can bring a second one back               *)
(* (connect.rs:232-237).                                                    *)
MarkedOnce == Exclusive(store) /\ Exclusive(disk)

MarkersStayExclusive ==
  [][MarkedOnce /\ ~MarkedOnce' =>
       /\ flight # NoProfile /\ flight' = NoProfile
       /\ flight.name \notin DOMAIN (IF opened THEN store ELSE disk)]_vars

(* A change was made in memory and could not be saved. *)
Unsaved == store' # store /\ ~saved'

(* The connected profile is stored under its name with the options it was   *)
(* connected with...                                                        *)
Attached ==
  /\ connected
  /\ recent.name \in DOMAIN store
  /\ store[recent.name] \ Markers = recent.flags \ Markers

(* ...and stays so through renames, marks and connects to others: only      *)
(* deleting it or a rename that could not be saved detaches it              *)
(* (manager_interactions.rs:195-223).                                       *)
StaysAttached ==
  [][Attached /\ connected' =>
       \/ Attached'
       \/ Unsaved
       \/ DOMAIN store' = DOMAIN store \ {recent.name}]_vars

(* While a rename is being typed the cursor stays on the profile it was     *)
(* started on, so that Enter renames that one; only a connect that ends and *)
(* adds a profile, or a change that cannot be saved, may take it off        *)
(* (manager_interactions.rs:175).                                           *)
OnChosen == renaming => store # Empty /\ NameAt(store, cursor) = chosen

CursorStaysOnChosen ==
  [][OnChosen /\ ~OnChosen' =>
       \/ Unsaved
       \/ /\ flight # NoProfile /\ flight' = NoProfile
          /\ DOMAIN store' = DOMAIN store \union {flight.name}
          /\ flight.name \notin DOMAIN store]_vars

-----------------------------------------------------------------------------
(* What the documents say that the code does not do: TLS options are part   *)
(* of the profile (README.md:91), so connecting to a stored profile does    *)
(* not remove them from it.                                                 *)
OptionsSurvive ==
  [][\A n \in DOMAIN store \intersect DOMAIN store' :
       "hidden" \in store[n] => "hidden" \in store'[n]]_vars
=============================================================================
