----------------------------- MODULE Migration -----------------------------
(***************************************************************************)
(* Which directory holds the user's data                                   *)
(* (packages/harness/src/paths.ts, the start and the login handlers of     *)
(* packages/harness/src/main.ts).                                          *)
(*                                                                         *)
(* Before a login the harness works in a directory named for the device.   *)
(* A login only leaves a note; the next start reads it, before any file is *)
(* open, and renames the directory. The process may die between any two    *)
(* operations on the disk, and any of them may fail.                       *)
(***************************************************************************)
EXTENDS Naturals, FiniteSets

CONSTANTS
  User,                \* the accounts
  Anon,                \* anon-<deviceId>
  None,
  MaxItems, MaxLogins  \* bounds

Dir == User \cup {Anon}
Item == 1..MaxItems

Pending == [from : Dir, to : User, ts : 1..MaxLogins]

ASSUME DirAssumption == Anon \notin User /\ None \notin Dir /\ None \notin Pending
ASSUME BoundAssumption == MaxItems \in Nat /\ MaxLogins \in Nat

VARIABLES
  there,      \* disk: the directories that exist
  blocked,    \* disk: the names that something else than a directory has
  items,      \* disk: what each directory holds
  trash,      \* disk: .trash/, the archived directories by their name
  pending,    \* disk: pending-migration.json, None if it is missing or damaged
  account,    \* keychain: whose tokens it holds
  open,       \* memory: the directory in use, None while no harness runs
  moved,      \* memory: a starting harness has renamed, the note is still there
  logins,     \* the clock: logins so far
  written,    \* history: items written so far
  lastLogin   \* history: who logged in last while the device's directory was in use

vars == <<there, blocked, items, trash, pending, account, open, moved, logins, written, lastLogin>>
history == <<logins, written, lastLogin>>

Archive == [from : Dir, ts : 1..MaxLogins, items : SUBSET Item]

TypeOK ==
  /\ there \subseteq Dir /\ blocked \subseteq Dir
  /\ items \in [Dir -> SUBSET Item]
  /\ trash \subseteq Archive
  /\ pending \in Pending \cup {None}
  /\ account \in User \cup {None}
  /\ open \in Dir \cup {None}
  /\ moved \in BOOLEAN
  /\ logins \in 0..MaxLogins /\ written \in 0..MaxItems
  /\ lastLogin \in User \cup {None}

Init ==
  /\ there = {} /\ blocked = {}
  /\ items = [d \in Dir |-> {}]
  /\ trash = {}
  /\ pending = None
  /\ account = None
  /\ open = None /\ moved = FALSE
  /\ logins = 0 /\ written = 0 /\ lastLogin = None
-----------------------------------------------------------------------------
(***************************************************************************)
(* The start                                                               *)
(***************************************************************************)
Starting == open = None /\ ~moved

\* resolvePaths() makes the directory where it is missing.
Opens(d) ==
  /\ open' = d
  /\ there' = there \cup {d}

\* No note: the device's directory, whoever is logged in.
StartWithoutNote ==
  /\ Starting
  /\ pending = None
  /\ Opens(Anon)
  /\ UNCHANGED <<blocked, items, trash, pending, account, moved, history>>

\* Applying the note throws: something else has the target's name, or a file
\* operation fails. The note stays for the next start.
NoteAfterFailureDropped == None
NoteAfterFailure == pending

MigrationThrows ==
  /\ Starting
  /\ pending # None
  /\ Opens(Anon)
  /\ pending' = NoteAfterFailure
  /\ UNCHANGED <<blocked, items, trash, account, moved, history>>

ArchivedAs(p) == [from |-> p.from, ts |-> p.ts, items |-> items[p.from]]
NameTaken(p) == \E a \in trash : a.from = p.from /\ a.ts = p.ts

\* The items and archives after the renaming. With nothing to rename there is
\* nothing to do; a directory the account already has is left as it is, and
\* the device's is put aside; else it becomes the account's.
RenameOver(p) ==
  /\ items' = [items EXCEPT ![p.to] = items[p.from], ![p.from] = {}]
  /\ trash' = trash

Rename(p) ==
  IF p.to \in there
    THEN /\ ~NameTaken(p)
         /\ trash' = trash \cup {ArchivedAs(p)}
         /\ items' = [items EXCEPT ![p.from] = {}]
    ELSE /\ trash' = trash
         /\ items' = [items EXCEPT ![p.to] = items[p.from], ![p.from] = {}]

Migrate ==
  /\ Starting
  /\ pending # None
  /\ pending.to \notin blocked
  /\ IF pending.from \in there
       THEN /\ Rename(pending)
            /\ there' = (there \ {pending.from}) \cup {pending.to}
       ELSE UNCHANGED <<items, trash, there>>
  /\ moved' = TRUE
  /\ UNCHANGED <<blocked, pending, account, open, history>>

\* Then the note goes, and the account's directory is opened.
Unlink ==
  /\ moved
  /\ moved' = FALSE
  /\ Opens(pending.to)
  /\ pending' = None
  /\ UNCHANGED <<blocked, items, trash, account, history>>

\* Renamed, but the note cannot be removed: back to the device's name.
UnlinkThrows ==
  /\ moved
  /\ moved' = FALSE
  /\ Opens(Anon)
  /\ UNCHANGED <<blocked, items, trash, pending, account, history>>
-----------------------------------------------------------------------------
Running == open # None

\* Anything the harness keeps: a turn, a memory, a task, a plan.
Write ==
  /\ Running
  /\ written < MaxItems
  /\ written' = written + 1
  /\ items' = [items EXCEPT ![open] = @ \cup {written + 1}]
  /\ UNCHANGED <<there, blocked, trash, pending, account, open, moved, logins, lastLogin>>

\* LOGIN_SUBMIT: a note only if the device's directory is in use; it replaces
\* the one that is there.
NoteKeepingFirst(u) ==
  IF pending # None THEN pending ELSE [from |-> open, to |-> u, ts |-> logins + 1]
Note(u) == [from |-> open, to |-> u, ts |-> logins + 1]

Login(u) ==
  /\ Running
  /\ logins < MaxLogins
  /\ account' = u
  /\ logins' = logins + 1
  /\ IF open = Anon THEN pending' = Note(u) /\ lastLogin' = u
                    ELSE UNCHANGED <<pending, lastLogin>>
  /\ UNCHANGED <<there, blocked, items, trash, open, moved, written>>

\* LOGOUT: the note stays.
Logout ==
  /\ Running
  /\ account # None
  /\ account' = None
  /\ UNCHANGED <<there, blocked, items, trash, pending, open, moved, history>>

\* The harness stops or dies, in the middle of its start perhaps.
Stop ==
  /\ Running \/ moved
  /\ open' = None /\ moved' = FALSE
  /\ UNCHANGED <<there, blocked, items, trash, pending, account, history>>

\* Somebody puts a file where an account's directory would be, or removes it.
Block(u) ==
  /\ u \notin there /\ ~moved
  /\ blocked' = IF u \in blocked THEN blocked \ {u} ELSE blocked \cup {u}
  /\ UNCHANGED <<there, items, trash, pending, account, open, moved, history>>

Start == StartWithoutNote \/ MigrationThrows \/ Migrate \/ Unlink \/ UnlinkThrows

Next ==
  \/ Start
  \/ Write
  \/ \E u \in User : Login(u) \/ Block(u)
  \/ Logout
  \/ Stop

Spec == Init /\ [][Next]_vars
-----------------------------------------------------------------------------
(***************************************************************************)
(* Properties                                                              *)
(***************************************************************************)
Held == UNION {items[d] : d \in Dir}
Archived == UNION {a.items : a \in trash}

\* Over any number of logins of any accounts, failed migrations, and deaths
\* between the renaming and the removal of the note, what was ever written is
\* in exactly one place, and no archive replaces another.
NothingLost ==
  /\ Held \cup Archived = 1..written
  /\ \A d \in Dir : items[d] # {} => d \in there
  /\ \A d \in Dir : items[d] \cap Archived = {} /\ \A e \in Dir \ {d} : items[d] \cap items[e] = {}
  /\ \A a, b \in trash : a.from = b.from /\ a.ts = b.ts => a = b

\* What a directory gets from the device's is given to the account that logged
\* in last while that one was in use, and to one that had none before.
LandsWithLastLogin ==
  [][\A u \in User : items'[u] # items[u] =>
       \/ open = u
       \/ u = lastLogin /\ u \notin there /\ items'[u] = items[Anon]]_vars

\* The note is not removed before what it asks for is done: a death at any
\* point of the start leaves either the note or a directory that has moved.
MovedBeforeForgotten ==
  [][pending # None /\ pending' = None => pending.from \notin there /\ pending.to = open']_vars

\* A user who is logged in and has a directory works in it. This does not
\* hold (MigrationOwn.cfg): without a note the next start goes back to the
\* device's name.
LoggedInOpensOwn ==
  open # None /\ account \in there /\ account = lastLogin /\ pending = None => open = account
=============================================================================
