-------------------------- MODULE DeviceProofs --------------------------
(***************************************************************************)
(* Proofs about two parts of the device that share nothing.  Migration:    *)
(* for any accounts and any number of logins, starts and deaths.  Then     *)
(* Chat, instanced as C over the variables of Bubbles and its own: for any *)
(* windows, messages, mounts, lines and deaths that C!BoundsFit allows     *)
(* (its ASSUME, which an instance does not bring along).                   *)
(***************************************************************************)
EXTENDS Migration, Bubbles, SequenceTheorems, TLAPS

(***************************************************************************)
(* The inductive invariant                                                 *)
(***************************************************************************)

\* The note is about the device's directory and the account that logged in
\* last while that was in use.
NoteInv == pending # None => pending.from = Anon /\ pending.to = lastLogin

\* Between the renaming and the removal of the note nothing is open, the note is
\* there, and what it is about is gone.
MovedInv == moved => open = None /\ pending # None /\ pending.from \notin there

\* The directory in use exists.
OpenInv == open # None => open \in there

IInv == TypeOK /\ NoteInv /\ MovedInv /\ OpenInv

LEMMA Names == None \notin Dir /\ Anon \in Dir /\ User \subseteq Dir /\ Anon \notin User
BY DirAssumption DEF Dir

LEMMA TypeInit == Init => TypeOK
<1> SUFFICES ASSUME Init PROVE TypeOK
  OBVIOUS
<1>1. logins \in 0..MaxLogins /\ written \in 0..MaxItems
  BY BoundAssumption DEF Init
<1>2. items \in [Dir -> SUBSET Item]
  BY DEF Init
<1> QED BY <1>1, <1>2 DEF Init, TypeOK

\* What is archived is an archive.
LEMMA ArchiveType ==
  ASSUME TypeOK, pending \in Pending
  PROVE  ArchivedAs(pending) \in Archive
BY DEF TypeOK, Pending, ArchivedAs, Archive

\* Every step keeps the types; a renaming that went through has left the note, so
\* that its removal opens a directory.
LEMMA TypeNext == IInv /\ [Next]_vars => TypeOK'
<1> SUFFICES ASSUME IInv, [Next]_vars PROVE TypeOK'
  OBVIOUS
<1> USE DEF TypeOK, IInv
<1>1. CASE StartWithoutNote
  BY <1>1, Names DEF StartWithoutNote, Opens, history
<1>2. CASE MigrationThrows
  BY <1>2, Names DEF MigrationThrows, Opens, NoteAfterFailure, history
<1>3. CASE Migrate
  <2>1. pending \in Pending /\ pending.from \in Dir /\ pending.to \in Dir
    BY <1>3, Names DEF Migrate, Pending
  <2>2. CASE pending.from \in there
    <3>1. there' \subseteq Dir
      BY <1>3, <2>1, <2>2 DEF Migrate
    <3>2. items' \in [Dir -> SUBSET Item] /\ trash' \subseteq Archive
      BY <1>3, <2>1, <2>2, ArchiveType DEF Migrate, Rename
    <3> QED BY <1>3, <3>1, <3>2 DEF Migrate, history
  <2>3. CASE pending.from \notin there
    BY <1>3, <2>3 DEF Migrate, history
  <2> QED BY <2>2, <2>3
<1>4. CASE Unlink
  <2>1. pending \in Pending /\ pending.to \in Dir
    BY <1>4, Names DEF Unlink, MovedInv, Pending
  <2> QED BY <1>4, <2>1 DEF Unlink, Opens, history
<1>5. CASE UnlinkThrows
  BY <1>5, Names DEF UnlinkThrows, Opens, history
<1>6. CASE Write
  <2>1. written' \in 0..MaxItems /\ written + 1 \in Item
    BY <1>6, BoundAssumption DEF Write, Item
  <2>2. items' \in [Dir -> SUBSET Item]
    BY <1>6, <2>1 DEF Write
  <2> QED BY <1>6, <2>1, <2>2 DEF Write
<1>7. ASSUME NEW u \in User, Login(u) PROVE TypeOK'
  <2>1. logins' \in 0..MaxLogins /\ logins + 1 \in 1..MaxLogins
    BY <1>7, BoundAssumption DEF Login
  <2>2. CASE open = Anon
    <3>1. Note(u) \in Pending
      BY <2>1, <2>2, Names DEF Note, Pending
    <3> QED BY <1>7, <2>1, <2>2, <3>1 DEF Login
  <2>3. CASE open # Anon
    BY <1>7, <2>1, <2>3 DEF Login
  <2> QED BY <2>2, <2>3
<1>8. ASSUME NEW u \in User, Block(u) PROVE TypeOK'
  BY <1>8, Names DEF Block, history
<1>9. CASE Logout
  BY <1>9 DEF Logout, history
<1>10. CASE Stop
  BY <1>10 DEF Stop, history
<1>11. CASE UNCHANGED vars
  BY <1>11 DEF vars
<1> QED BY <1>1, <1>2, <1>3, <1>4, <1>5, <1>6, <1>7, <1>8, <1>9, <1>10, <1>11 DEF Next, Start

\* Only a login writes the note, and it replaces the one before; nothing else
\* changes who logged in last.
LEMMA NoteNext == IInv /\ [Next]_vars => NoteInv'
<1> SUFFICES ASSUME IInv, [Next]_vars PROVE NoteInv'
  OBVIOUS
<1> USE DEF IInv, NoteInv
<1>1. ASSUME NEW u \in User, Login(u) PROVE NoteInv'
  BY <1>1 DEF Login, Note
<1>2. CASE Unlink
  BY <1>2 DEF Unlink
<1>3. ASSUME ~\E u \in User : Login(u), ~Unlink PROVE pending' = pending /\ lastLogin' = lastLogin
  BY <1>3 DEF Next, Start, StartWithoutNote, MigrationThrows, NoteAfterFailure, Migrate,
     UnlinkThrows, Write, Logout, Stop, Block, history, vars
<1> QED BY <1>1, <1>2, <1>3

\* Nothing runs between the renaming and the removal of the note, and the
\* renaming takes the directory away.
LEMMA MovedNext == IInv /\ [Next]_vars => MovedInv'
<1> SUFFICES ASSUME IInv, [Next]_vars PROVE MovedInv'
  OBVIOUS
<1> USE DEF IInv, MovedInv
<1>1. CASE Migrate
  <2>1. pending.from # pending.to
    BY <1>1, Names DEF Migrate, TypeOK, NoteInv, Pending
  <2> QED BY <1>1, <2>1 DEF Migrate, Starting, history
<1>2. ASSUME NEW u \in User, Block(u) PROVE MovedInv'
  BY <1>2 DEF Block
<1>3. CASE UNCHANGED vars
  BY <1>3 DEF vars
<1>4. CASE Unlink \/ UnlinkThrows \/ Stop
  BY <1>4 DEF Unlink, UnlinkThrows, Stop
<1>5. CASE StartWithoutNote \/ MigrationThrows
  BY <1>5 DEF StartWithoutNote, MigrationThrows, Starting
<1>6. CASE Write \/ Logout \/ \E u \in User : Login(u)
  BY <1>6 DEF Write, Logout, Login, Running
<1> QED BY <1>1, <1>2, <1>3, <1>4, <1>5, <1>6 DEF Next, Start

LEMMA OpenNext == IInv /\ [Next]_vars => OpenInv'
<1> SUFFICES ASSUME IInv, [Next]_vars PROVE OpenInv'
  OBVIOUS
<1> USE DEF IInv, OpenInv
<1>1. CASE StartWithoutNote \/ MigrationThrows \/ Unlink \/ UnlinkThrows
  BY <1>1 DEF StartWithoutNote, MigrationThrows, Unlink, UnlinkThrows, Opens
<1>2. CASE Migrate
  BY <1>2 DEF Migrate, Starting
<1>3. CASE Stop
  BY <1>3 DEF Stop
<1>4. ASSUME ~Start, ~Stop PROVE open' = open /\ there' = there
  BY <1>4 DEF Next, Start, Write, Login, Block, Logout, vars
<1> QED BY <1>1, <1>2, <1>3, <1>4 DEF Start

\* The types, the note, the step between renaming and removal, and the directory
\* in use, in every behaviour.
THEOREM Invariant == Spec => []IInv
<1>1. Init => IInv
  BY TypeInit DEF Init, IInv, NoteInv, MovedInv, OpenInv
<1>2. IInv /\ [Next]_vars => IInv'
  BY TypeNext, NoteNext, MovedNext, OpenNext DEF IInv
<1> QED BY <1>1, <1>2, PTL DEF Spec

\* The variables keep their types.
THEOREM TypeCorrect == Spec => []TypeOK
<1>1. IInv => TypeOK
  BY DEF IInv
<1> QED BY Invariant, <1>1, PTL

(***************************************************************************)
(* Nothing is lost                                                         *)
(***************************************************************************)

\* Where an item is, in words that do not mention unions.
Somewhere(i) == (\E d \in Dir : i \in items[d]) \/ (\E a \in trash : i \in a.items)

\* NothingLost, item by item.
Accounted ==
  /\ \A i : Somewhere(i) <=> i \in 1..written
  /\ \A d \in Dir : items[d] # {} => d \in there
  /\ \A d \in Dir : \A i \in items[d] :
       /\ \A a \in trash : i \notin a.items
       /\ \A e \in Dir : e # d => i \notin items[e]
  /\ \A a, b \in trash : a.from = b.from /\ a.ts = b.ts => a = b

LEMMA AccountedIsEnough == Accounted => NothingLost
<1> SUFFICES ASSUME Accounted PROVE NothingLost
  OBVIOUS
<1>1. \A i : i \in Archived <=> \E a \in trash : i \in a.items
  BY DEF Archived
<1>2. \A i : i \in Held <=> \E d \in Dir : i \in items[d]
  BY DEF Held
<1>3. Held \cup Archived = 1..written
  BY <1>1, <1>2 DEF Accounted, Somewhere
<1>4. \A d \in Dir : /\ items[d] \cap Archived = {}
                     /\ \A e \in Dir \ {d} : items[d] \cap items[e] = {}
  BY <1>1 DEF Accounted
<1> QED BY <1>3, <1>4 DEF Accounted, NothingLost

\* A renaming hands all items of the device's directory over, to an account that
\* had none or to a new archive.
LEMMA AccountedMigrate ==
  ASSUME IInv, Accounted, Migrate
  PROVE  Accounted'
<1> DEFINE p == pending
<1>1. p \in Pending /\ p.from \in Dir /\ p.to \in Dir /\ p.from # p.to
  BY Names DEF IInv, TypeOK, NoteInv, Migrate, Pending
<1>2. items \in [Dir -> SUBSET Item] /\ written' = written
  BY DEF IInv, TypeOK, Migrate, history
<1>3. CASE p.from \notin there
  BY <1>2, <1>3 DEF Accounted, Somewhere, Migrate
<1>4. CASE p.from \in there /\ p.to \in there
  <2>1. /\ trash' = trash \cup {ArchivedAs(p)} /\ ~NameTaken(p)
        /\ items' = [items EXCEPT ![p.from] = {}]
        /\ there' = there \ {p.from}
    BY <1>1, <1>4 DEF Migrate, Rename
  <2>2. ArchivedAs(p).items = items[p.from] /\ ArchivedAs(p).from = p.from /\ ArchivedAs(p).ts = p.ts
    BY DEF ArchivedAs
  <2>3. \A d \in Dir : items'[d] = IF d = p.from THEN {} ELSE items[d]
    BY <1>1, <1>2, <2>1
  <2>4. \A i : Somewhere(i)' <=> Somewhere(i)
    BY <1>1, <2>1, <2>2, <2>3 DEF Somewhere
  <2>5. \A a, b \in trash' : a.from = b.from /\ a.ts = b.ts => a = b
    BY <2>1, <2>2 DEF Accounted, NameTaken
  <2>6. \A d \in Dir : \A i \in items'[d] :
          /\ \A a \in trash' : i \notin a.items
          /\ \A e \in Dir : e # d => i \notin items'[e]
    BY <1>1, <2>1, <2>2, <2>3 DEF Accounted
  <2>7. \A d \in Dir : items'[d] # {} => d \in there'
    BY <2>1, <2>3 DEF Accounted
  <2> QED BY <1>2, <2>4, <2>5, <2>6, <2>7 DEF Accounted
<1>5. CASE p.from \in there /\ p.to \notin there
  <2>1. /\ trash' = trash
        /\ items' = [items EXCEPT ![p.to] = items[p.from], ![p.from] = {}]
        /\ there' = (there \ {p.from}) \cup {p.to}
    BY <1>1, <1>5 DEF Migrate, Rename
  <2>2. items[p.to] = {}
    BY <1>1, <1>5 DEF Accounted
  <2>3. \A d \in Dir : items'[d] = IF d = p.from THEN {} ELSE
                                   IF d = p.to THEN items[p.from] ELSE items[d]
    BY <1>1, <1>2, <2>1
  <2>4. \A i : Somewhere(i)' <=> Somewhere(i)
    BY <1>1, <2>1, <2>2, <2>3 DEF Somewhere
  <2>5. ASSUME NEW d \in Dir, NEW i \in items'[d]
        PROVE  /\ \A a \in trash' : i \notin a.items
               /\ \A e \in Dir : e # d => i \notin items'[e]
    <3>1. PICK c \in Dir : i \in items[c] /\ (d = p.to => c = p.from) /\ (d # p.to => c = d)
      BY <1>1, <2>3, <2>5
    <3>2. /\ \A a \in trash : i \notin a.items
          /\ \A e \in Dir : e # c => i \notin items[e]
      BY <3>1 DEF Accounted
    <3>3. ASSUME NEW e \in Dir, e # d PROVE i \notin items'[e]
      BY <1>1, <2>3, <3>1, <3>2, <3>3
    <3> QED BY <2>1, <3>2, <3>3
  <2>6. ASSUME NEW d \in Dir, items'[d] # {} PROVE d \in there'
    <3>1. d # p.from
      BY <2>3, <2>6
    <3>2. CASE d = p.to
      BY <2>1, <3>2
    <3>3. CASE d # p.to
      BY <2>1, <2>3, <2>6, <3>1, <3>3 DEF Accounted
    <3> QED BY <3>2, <3>3
  <2> QED BY <1>2, <2>1, <2>4, <2>5, <2>6 DEF Accounted
<1> QED BY <1>3, <1>4, <1>5

\* A new item has a number of its own, and lands in a directory that exists.
LEMMA AccountedWrite ==
  ASSUME IInv, Accounted, Write
  PROVE  Accounted'
<1>1. open \in Dir /\ open \in there /\ trash' = trash /\ there' = there
  BY DEF IInv, TypeOK, OpenInv, Write, Running
<1>2. written \in Nat /\ written' = written + 1
  BY BoundAssumption DEF IInv, TypeOK, Write
<1>3. \A d \in Dir : items'[d] = IF d = open THEN items[d] \cup {written + 1} ELSE items[d]
  BY <1>1 DEF IInv, TypeOK, Write
<1>4. \A i : i \in 1..written' <=> i \in 1..written \/ i = written + 1
  BY <1>2
<1>5. ~Somewhere(written + 1)
  BY <1>2 DEF Accounted
<1>6. \A i : Somewhere(i)' <=> Somewhere(i) \/ i = written + 1
  BY <1>1, <1>3 DEF Somewhere
<1>7. ASSUME NEW d \in Dir, NEW i \in items'[d]
      PROVE  /\ \A a \in trash' : i \notin a.items
             /\ \A e \in Dir : e # d => i \notin items'[e]
  <2>1. CASE i = written + 1
    <3>1. d = open
      BY <1>3, <1>5, <1>7, <2>1 DEF Somewhere
    <3> QED BY <1>1, <1>3, <1>5, <2>1, <3>1 DEF Somewhere
  <2>2. CASE i # written + 1
    <3>1. i \in items[d]
      BY <1>3, <1>7, <2>2
    <3> QED BY <1>1, <1>3, <2>2, <3>1 DEF Accounted
  <2> QED BY <2>1, <2>2
<1>8. ASSUME NEW d \in Dir, items'[d] # {} PROVE d \in there'
  <2>1. CASE d = open
    BY <1>1, <2>1
  <2>2. CASE d # open
    BY <1>1, <1>3, <1>8, <2>2 DEF Accounted
  <2> QED BY <2>1, <2>2
<1> QED BY <1>1, <1>4, <1>6, <1>7, <1>8 DEF Accounted

LEMMA AccountedNext == IInv /\ Accounted /\ [Next]_vars => Accounted'
<1> SUFFICES ASSUME IInv, Accounted, [Next]_vars PROVE Accounted'
  OBVIOUS
<1>1. CASE Migrate
  BY <1>1, AccountedMigrate
<1>2. CASE Write
  BY <1>2, AccountedWrite
<1>3. ASSUME ~Migrate, ~Write
      PROVE  items' = items /\ trash' = trash /\ written' = written /\ there \subseteq there'
  BY <1>3 DEF Next, Start, StartWithoutNote, MigrationThrows, Unlink, UnlinkThrows, Opens,
     Login, Block, Logout, Stop, history, vars
<1>4. CASE ~Migrate /\ ~Write
  BY <1>3, <1>4 DEF Accounted, Somewhere
<1> QED BY <1>1, <1>2, <1>4

\* Over any number of logins, failures, deaths and starts, every item is in one
\* place, and no archive replaces another.
THEOREM Lossless == Spec => []NothingLost
<1>1. Init => Accounted
  BY DEF Init, Accounted, Somewhere
<1>2. Accounted => NothingLost
  BY AccountedIsEnough
<1> QED BY Invariant, <1>1, <1>2, AccountedNext, PTL DEF Spec

(***************************************************************************)
(* What a step may do                                                      *)
(***************************************************************************)

\* Only the last to log in while the device's directory was in use is given its
\* content, and nothing that an account had is overwritten.
THEOREM LandsRight == Spec => LandsWithLastLogin
<1> DEFINE Landed == \A u \in User : items'[u] # items[u] =>
                       \/ open = u
                       \/ u = lastLogin /\ u \notin there /\ items'[u] = items[Anon]
<1>1. IInv /\ [Next]_vars => Landed
  <2> SUFFICES ASSUME IInv, [Next]_vars, NEW u \in User, items'[u] # items[u]
               PROVE  \/ open = u
                      \/ u = lastLogin /\ u \notin there /\ items'[u] = items[Anon]
    OBVIOUS
  <2>1. u \in Dir /\ u # Anon /\ items \in [Dir -> SUBSET Item]
    BY Names DEF IInv, TypeOK
  <2>2. CASE Write
    BY <2>1, <2>2 DEF Write
  <2>3. CASE Migrate
    <3>1. pending.from = Anon /\ pending.to = lastLogin
      BY <2>3 DEF IInv, NoteInv, Migrate
    <3>2. pending.from \in there /\ Rename(pending)
      BY <2>3 DEF Migrate
    <3>3. pending.to \notin there /\ items' = [items EXCEPT ![pending.to] = items[Anon], ![Anon] = {}]
      BY <2>1, <3>1, <3>2 DEF Rename
    <3> QED BY <2>1, <3>1, <3>3
  <2>4. CASE ~Write /\ ~Migrate
    BY <2>4 DEF Next, Start, StartWithoutNote, MigrationThrows, Unlink, UnlinkThrows,
       Login, Block, Logout, Stop, vars
  <2> QED BY <2>2, <2>3, <2>4
<1>2. IInv /\ [Next]_vars => [Landed]_vars
  BY <1>1
<1> QED BY Invariant, <1>2, PTL DEF Spec, LandsWithLastLogin

\* The note only goes once the device's directory has moved, and with the
\* account's directory open.
THEOREM MovesFirst == Spec => MovedBeforeForgotten
<1> DEFINE Moved == pending # None /\ pending' = None =>
                      pending.from \notin there /\ pending.to = open'
<1>1. IInv /\ [Next]_vars => [Moved]_vars
  <2> SUFFICES ASSUME IInv, [Next]_vars, pending # None, pending' = None
               PROVE  pending.from \notin there /\ pending.to = open'
    OBVIOUS
  <2>1. CASE Unlink
    BY <2>1 DEF Unlink, Opens, IInv, MovedInv
  <2>2. ASSUME NEW u \in User, Login(u) PROVE FALSE
    <3>1. open = Anon /\ pending' = Note(u)
      BY <2>2 DEF Login
    <3>2. logins + 1 \in 1..MaxLogins
      BY <2>2, BoundAssumption DEF Login, IInv, TypeOK
    <3>3. Note(u) \in Pending
      BY <3>1, <3>2, Names DEF Note, Pending
    <3> QED BY <3>1, <3>3, DirAssumption
  <2>3. ASSUME ~Unlink, ~\E u \in User : Login(u) PROVE pending' = pending
    BY <2>3 DEF Next, Start, StartWithoutNote, MigrationThrows, NoteAfterFailure, Migrate,
       UnlinkThrows, Write, Logout, Stop, Block, history, vars
  <2> QED BY <2>1, <2>2, <2>3
<1> QED BY Invariant, <1>1, PTL DEF Spec, MovedBeforeForgotten

-----------------------------------------------------------------------------
(***************************************************************************)
(* The chat, with its own constants and variables: those of Bubbles and    *)
(* the ones Chat adds.                                                     *)
(***************************************************************************)
CONSTANTS SeedWindow, MaxLines, MaxDeaths
VARIABLES shown, mounts, sends, last, up, deaths, pipe, out, turn, stored

C == INSTANCE Chat

(***************************************************************************)
(* The inductive invariant.  A reply is stored when its last line is       *)
(* written, so among the lines not yet read an answer to a request for the *)
(* history stands between the turns it has and those it has not: the last  *)
(* lines of the former come before it and no line of theirs comes after.   *)
(***************************************************************************)
IsPet(turns, id) == \E i \in DOMAIN turns : turns[i].role = "pet" /\ turns[i].of = id
OnePet(turns) ==
  \A i, j \in DOMAIN turns :
    turns[i].role = "pet" /\ turns[j].role = "pet" /\ turns[i].of = turns[j].of => i = j

Line == C!Event \cup C!Answer
IsEvent(line) == line.kind \in {"progress", "done", "error"}

\* Requests have ids of their own, of those given out so far, and a turn that of
\* a request that was handled: the requests p are not yet handled, those in pd
\* wait, l is the latest id, the windows in sh are shown and t is the turn.
IdsOK(p, pd, l, sh, t) ==
  /\ \A i \in DOMAIN p : p[i].id <= l
  /\ \A i, j \in DOMAIN p : p[i].id = p[j].id => i = j
  /\ \A r \in pd : r.id <= l /\ r.win \in sh
  /\ \A r \in pd, i \in DOMAIN p : p[i].id = r.id => p[i] = r
  /\ t # C!NoTurn => t.of <= l /\ \A i \in DOMAIN p : p[i].id # t.of

IdsInv == last = sends + mounts /\ IdsOK(pipe, waiting, last, shown, turn)

\* A stored reply is that of a turn that is over.
StoredOK(st, p, l, t) ==
  /\ OnePet(st)
  /\ \A id \in C!Ids : IsPet(st, id) => id <= l /\ t.of # id /\ \A i \in DOMAIN p : p[i].id # id

StoredInv == StoredOK(stored, pipe, last, turn)

\* The lines o not yet read, when the turns in st are stored, the requests pd
\* wait, the windows were told of td, and l is the latest id.
OutOK(o, st, pd, td, l) ==
  \A p \in DOMAIN o :
    /\ o[p].of <= l
    /\ o[p].kind = "done" =>
         /\ IsPet(st, o[p].of)
         /\ \A q \in DOMAIN o : q > p /\ IsEvent(o[q]) => o[q].of # o[p].of
    /\ o[p].kind = "res" =>
         /\ OnePet(o[p].turns)
         /\ \A id \in C!Ids : IsPet(o[p].turns, id) => IsPet(st, id)
         /\ \A q \in DOMAIN o : q > p /\ IsEvent(o[q]) => ~IsPet(o[p].turns, o[q].of)
         /\ \A r \in pd : r.id = o[p].of /\ r.kind = "history" =>
              /\ \A q \in DOMAIN o : q < p /\ o[q].kind = "done" => IsPet(o[p].turns, o[q].of)
              /\ \A id \in td[r.win] : IsPet(o[p].turns, id)

OutInv == OutOK(out, stored, waiting, told, last)

\* No line of the turn is to come.
Said(o, id) == \A p \in DOMAIN o : IsEvent(o[p]) => o[p].of # id

ToldInv == \A w \in Windows : \A id \in told[w] : IsPet(stored, id) /\ Said(out, id)

IsReply(b) == b.kind \in {"turn", "histPet"}

\* A turn has one bubble, and a placeholder is its request's only one.
Apart(v) ==
  \A i, j \in DOMAIN v :
    /\ IsReply(v[i]) /\ IsReply(v[j]) /\ v[i].of = v[j].of => i = j
    /\ v[i].kind = "wait" /\ v[j].kind \in {"wait", "histPet"} /\ v[i].of = v[j].of => i = j

\* The list shows the replies ids.
Shows(v, ids) ==
  \A id \in ids : \E i \in DOMAIN v :
    IsReply(v[i]) /\ v[i].of = id /\ v[i].text = "reply" /\ ~v[i].moving

WaitsFor(v, w, pd) ==
  \A i \in DOMAIN v :
    v[i].kind = "wait" /\ v[i].moving => C!SendRequest(w, v[i].of) \in pd

\* The bubbles v of the window w, when it was told of td, the requests pd wait
\* and l is the latest id.
Window(w, v, td, pd, l) ==
  /\ Apart(v) /\ Shows(v, td) /\ WaitsFor(v, w, pd)
  /\ \A i \in DOMAIN v : v[i].kind = "wait" => v[i].of <= l

\* What a window has from the history is over.
Past(v, st, o) == \A i \in DOMAIN v : v[i].kind = "histPet" => IsPet(st, v[i].of) /\ Said(o, v[i].of)

ViewInv ==
  \A w \in Windows :
    /\ w \notin shown => view[w] = << >> /\ told[w] = {}
    /\ Window(w, view[w], told[w], waiting, last) /\ Past(view[w], stored, out)

ChatInv == C!TypeOK /\ IdsInv /\ StoredInv /\ OutInv /\ ToldInv /\ ViewInv


-----------------------------------------------------------------------------
(* Types                                                                    *)
LEMMA Bounds ==
  ASSUME C!BoundsFit
  PROVE  /\ MaxSends \in Nat /\ MaxMounts \in Nat /\ MaxLines \in Nat /\ MaxDeaths \in Nat
         /\ SeedWindow \in Windows
BY DEF C!BoundsFit

LEMMA ElementOf ==
  ASSUME NEW S, NEW s \in Seq(S)
  PROVE  /\ DOMAIN s = 1..Len(s) /\ Len(s) \in Nat
         /\ \A i \in DOMAIN s : s[i] \in S
         /\ s # << >> => Head(s) = s[1] /\ 1 \in DOMAIN s
BY ElementOfSeq

LEMMA TailOf ==
  ASSUME NEW S, NEW s \in Seq(S), s # << >>
  PROVE  /\ Tail(s) \in Seq(S) /\ DOMAIN Tail(s) = 1..(Len(s) - 1)
         /\ \A i \in DOMAIN Tail(s) : i + 1 \in DOMAIN s /\ Tail(s)[i] = s[i + 1]
<1>1. Len(s) \in Nat /\ Len(s) >= 1
  BY EmptySeq
<1>2. Tail(s) \in Seq(S) /\ Len(Tail(s)) = Len(s) - 1
      /\ \A i \in 1..Len(Tail(s)) : Tail(s)[i] = s[i + 1]
  BY HeadTailProperties
<1> QED BY <1>1, <1>2, ElementOf

LEMMA AppendOf ==
  ASSUME NEW S, NEW s \in Seq(S), NEW e \in S
  PROVE  /\ Append(s, e) \in Seq(S) /\ DOMAIN Append(s, e) = DOMAIN s \cup {Len(s) + 1}
         /\ Len(Append(s, e)) = Len(s) + 1
         /\ Append(s, e)[Len(s) + 1] = e /\ Len(s) + 1 \notin DOMAIN s
         /\ \A i \in DOMAIN s : Append(s, e)[i] = s[i] /\ i < Len(s) + 1
<1>1. Len(s) \in Nat /\ DOMAIN s = 1..Len(s)
  BY ElementOf
<1>2. /\ Append(s, e) \in Seq(S) /\ Len(Append(s, e)) = Len(s) + 1
      /\ \A i \in 1..Len(s) : Append(s, e)[i] = s[i]
      /\ Append(s, e)[Len(s) + 1] = e
  BY AppendProperties
<1>3. DOMAIN Append(s, e) = 1..(Len(s) + 1)
  BY <1>2
<1> QED BY <1>1, <1>2, <1>3

\* Two elements are added one after the other.
LEMMA AppendTwo ==
  ASSUME NEW S, NEW s \in Seq(S), NEW a \in S, NEW b \in S
  PROVE  s \o <<a, b>> = Append(Append(s, a), b) /\ s \o <<a>> = Append(s, a)
OBVIOUS

LEMMA Lines ==
  ASSUME NEW line \in Line
  PROVE  /\ line.of \in C!Ids /\ line.kind \in {"progress", "done", "error", "res"}
         /\ line.kind = "res" => line.turns \in Seq(C!Stored)
BY DEF Line, C!Event, C!Answer

LEMMA Identifiers ==
  ASSUME C!BoundsFit
  PROVE  C!Ids \subseteq Nat /\ 0 \notin C!Ids
BY Bounds DEF C!Ids

LEMMA ChatTypeInit ==
  ASSUME C!BoundsFit, C!Init
  PROVE  C!TypeOK
<1>1. \A S : << >> \in Seq(S)
  OBVIOUS
<1> QED BY <1>1, Bounds DEF C!Init, C!TypeOK, C!Turn, C!NoTurn

-----------------------------------------------------------------------------
(* What each step makes of a list of bubbles                                *)
LEMMA Reshaped ==
  ASSUME NEW S, NEW v \in Seq(S), NEW g, g = [i \in DOMAIN v |-> g[i]],
         \A i \in DOMAIN v : g[i] \in S
  PROVE  g \in Seq(S) /\ DOMAIN g = DOMAIN v
<1>1. DOMAIN v = 1..Len(v) /\ Len(v) \in Nat
  BY ElementOf
<1>2. g \in [1..Len(v) -> S]
  BY <1>1
<1> QED BY <1>1, <1>2, SeqDef

LEMMA StillApart ==
  ASSUME NEW v, NEW g, DOMAIN g = DOMAIN v, Apart(v),
         \A i \in DOMAIN v : g[i].kind = v[i].kind /\ g[i].of = v[i].of
  PROVE  Apart(g)
BY DEF Apart, IsReply

LEMMA TimeoutView ==
  ASSUME NEW v \in Seq(C!Bubble), NEW id, NEW w, NEW pd, NEW g, Apart(v), WaitsFor(v, w, pd),
         g = C!TimedOut(v, id)
  PROVE  /\ g \in Seq(C!Bubble) /\ Apart(g)
         /\ WaitsFor(g, w, pd \ {C!SendRequest(w, id)})
         /\ \A ids : Shows(v, ids) => Shows(g, ids)
         /\ DOMAIN g = DOMAIN v /\ \A i \in DOMAIN v : g[i].kind = v[i].kind /\ g[i].of = v[i].of
<1>1. g = [i \in DOMAIN v |-> IF v[i].kind = "wait" /\ v[i].of = id
                                THEN [v[i] EXCEPT !.text = "sorry", !.moving = FALSE] ELSE v[i]]
  BY DEF C!TimedOut, C!Mapped
<1>2. \A i \in DOMAIN v : v[i] \in C!Bubble
  BY ElementOf
<1>3. \A i \in DOMAIN v : /\ g[i] \in C!Bubble /\ g[i].kind = v[i].kind /\ g[i].of = v[i].of
                          /\ v[i].kind # "wait" => g[i] = v[i]
                          /\ g[i].moving => v[i].moving /\ ~(v[i].kind = "wait" /\ v[i].of = id)
  <2> SUFFICES ASSUME NEW i \in DOMAIN v
               PROVE  /\ g[i] \in C!Bubble /\ g[i].kind = v[i].kind /\ g[i].of = v[i].of
                      /\ v[i].kind # "wait" => g[i] = v[i]
                      /\ g[i].moving => v[i].moving /\ ~(v[i].kind = "wait" /\ v[i].of = id)
    OBVIOUS
  <2>1. CASE v[i].kind = "wait" /\ v[i].of = id
    <3>1. g[i] = [v[i] EXCEPT !.text = "sorry", !.moving = FALSE]
      BY <1>1, <2>1
    <3>2. /\ g[i] \in C!Bubble /\ g[i].kind = v[i].kind /\ g[i].of = v[i].of
          /\ g[i].text = "sorry" /\ g[i].moving = FALSE
      <4> DEFINE b == v[i]  c == g[i]
      <4>1. b \in C!Bubble /\ c = [b EXCEPT !.text = "sorry", !.moving = FALSE]
        BY <1>2, <3>1
      <4> HIDE DEF b, c
      <4>2. /\ c \in C!Bubble /\ c.kind = b.kind /\ c.of = b.of
            /\ c.text = "sorry" /\ c.moving = FALSE
        BY <4>1 DEF C!Bubble
      <4> QED BY <4>2 DEF b, c
    <3> QED BY <2>1, <3>2
  <2>2. CASE ~(v[i].kind = "wait" /\ v[i].of = id)
    <3>1. g[i] = v[i]
      BY <1>1, <2>2
    <3> QED BY <1>2, <2>2, <3>1
  <2> QED BY <2>1, <2>2
<1>4. g \in Seq(C!Bubble) /\ DOMAIN g = DOMAIN v
  <2>1. g = [i \in DOMAIN v |-> g[i]]
    BY <1>1
  <2>2. \A i \in DOMAIN v : g[i] \in C!Bubble
    BY <1>3
  <2> QED BY <2>1, <2>2, Reshaped
<1>5. Apart(g)
  <2>1. \A i \in DOMAIN v : g[i].kind = v[i].kind /\ g[i].of = v[i].of
    BY <1>3
  <2> QED BY <1>4, <2>1, StillApart
<1>6. WaitsFor(g, w, pd \ {C!SendRequest(w, id)})
  BY <1>3, <1>4 DEF WaitsFor, C!SendRequest
<1>7. \A ids : Shows(v, ids) => Shows(g, ids)
  BY <1>3, <1>4 DEF Shows, IsReply
<1> QED BY <1>3, <1>4, <1>5, <1>6, <1>7

LEMMA HistoryView ==
  ASSUME NEW turns \in Seq(C!Stored), OnePet(turns)
  PROVE  /\ C!History(turns) \in Seq(C!Bubble) /\ Apart(C!History(turns))
         /\ Shows(C!History(turns), {id \in C!Ids : IsPet(turns, id)})
         /\ \A i \in DOMAIN C!History(turns) :
              /\ C!History(turns)[i].kind # "wait"
              /\ C!History(turns)[i].kind = "histPet" => IsPet(turns, C!History(turns)[i].of)
<1> DEFINE g == C!History(turns)
<1>1. DOMAIN turns = 1..Len(turns) /\ Len(turns) \in Nat /\ \A i \in DOMAIN turns : turns[i] \in C!Stored
  BY ElementOf
<1>2. DOMAIN g = DOMAIN turns
      /\ \A i \in DOMAIN turns :
           /\ g[i].kind = IF turns[i].role = "user" THEN "histUser" ELSE "histPet"
           /\ g[i].of = turns[i].of /\ ~g[i].moving
           /\ g[i].text = IF turns[i].role = "user" THEN "own" ELSE "reply"
           /\ g[i] \in C!Bubble
  BY <1>1 DEF C!History, C!Bubble, C!Stored
<1>3. g \in Seq(C!Bubble)
  <2>1. g \in [1..Len(turns) -> C!Bubble]
    BY <1>1, <1>2 DEF C!History
  <2> QED BY <1>1, <2>1, SeqDef
<1>4. \A i \in DOMAIN turns : turns[i].role = "pet" <=> g[i].kind = "histPet"
  BY <1>1, <1>2 DEF C!Stored
<1> HIDE DEF g
<1>5. Apart(g)
  <2>1. \A i \in DOMAIN g : g[i].kind \in {"histUser", "histPet"}
    BY <1>2
  <2> QED BY <1>2, <1>4, <2>1 DEF Apart, IsReply, OnePet
<1>6. Shows(g, {id \in C!Ids : IsPet(turns, id)})
  BY <1>1, <1>2, <1>4 DEF Shows, IsPet, IsReply, C!Stored
<1>7. \A i \in DOMAIN g : g[i].kind # "wait" /\ (g[i].kind = "histPet" => IsPet(turns, g[i].of))
  BY <1>2, <1>4 DEF IsPet
<1> QED BY <1>3, <1>5, <1>6, <1>7 DEF g

LEMMA SentView ==
  ASSUME NEW v \in Seq(C!Bubble), NEW id \in C!Ids, Apart(v),
         \A i \in DOMAIN v : v[i].kind \in {"wait", "histPet"} => v[i].of # id
  PROVE  /\ v \o C!Sent(id) \in Seq(C!Bubble) /\ Apart(v \o C!Sent(id))
         /\ \A ids : Shows(v, ids) => Shows(v \o C!Sent(id), ids)
         /\ \A i \in DOMAIN (v \o C!Sent(id)) :
              \/ i \in DOMAIN v /\ (v \o C!Sent(id))[i] = v[i]
              \/ (v \o C!Sent(id))[i].kind = "user"
              \/ (v \o C!Sent(id))[i] = C!Placeholder(id)
<1> DEFINE a == [kind |-> "user", of |-> id, text |-> "own", moving |-> FALSE]
           b == C!Placeholder(id)
           g == v \o C!Sent(id)
           n == Len(v)
<1>1. a \in C!Bubble /\ b \in C!Bubble /\ a.kind = "user" /\ b.kind = "wait" /\ b.of = id
  BY DEF C!Placeholder, C!Bubble
<1>2. g = Append(Append(v, a), b)
  <2>1. C!Sent(id) = <<a, b>>
    BY DEF C!Sent
  <2> HIDE DEF a, b
  <2> QED BY <1>1, <2>1, AppendTwo
<1>3. DOMAIN v = 1..n /\ n \in Nat
  BY ElementOf
<1> DEFINE h == Append(v, a)
<1> HIDE DEF a, b, g, n
<1>4. /\ h \in Seq(C!Bubble) /\ DOMAIN h = DOMAIN v \cup {n + 1} /\ Len(h) = n + 1
      /\ h[n + 1] = a /\ \A i \in DOMAIN v : h[i] = v[i]
  BY <1>1, <1>3, AppendOf DEF n
<1> HIDE DEF h
<1>5. /\ g \in Seq(C!Bubble) /\ DOMAIN g = DOMAIN h \cup {n + 1 + 1}
      /\ g[n + 1 + 1] = b /\ \A i \in DOMAIN h : g[i] = h[i]
  BY <1>1, <1>2, <1>4, AppendOf DEF h
<1>6. /\ DOMAIN g = DOMAIN v \cup {n + 1, n + 2} /\ n + 1 \notin DOMAIN v /\ n + 2 \notin DOMAIN v
      /\ g[n + 1] = a /\ g[n + 2] = b /\ n + 1 # n + 2 /\ \A i \in DOMAIN v : g[i] = v[i]
  BY <1>3, <1>4, <1>5
<1>7. Apart(g)
  BY <1>1, <1>6 DEF Apart, IsReply
<1>8. \A ids : Shows(v, ids) => Shows(g, ids)
  BY <1>6 DEF Shows
<1> QED BY <1>1, <1>5, <1>6, <1>7, <1>8 DEF g, b

LEMMA UpsertedView ==
  ASSUME NEW v \in Seq(C!Bubble), NEW line \in C!Event, NEW g, Apart(v), g = C!Upserted(v, line),
         \A i \in DOMAIN v : v[i].kind = "histPet" => v[i].of # line.of
  PROVE  /\ g \in Seq(C!Bubble) /\ Apart(g)
         /\ \A ids : Shows(v, ids) /\ line.of \notin ids =>
              Shows(g, ids) /\ (line.kind = "done" => Shows(g, ids \cup {line.of}))
         /\ \A i \in DOMAIN g : g[i].kind \in {"wait", "histPet"} => i \in DOMAIN v /\ g[i] = v[i]
<1> DEFINE text == [progress |-> "sofar", done |-> "reply", error |-> "sorry"][line.kind]
           moves == line.kind = "progress"
           n == Len(v)
<1>1. /\ text \in {"sofar", "reply", "sorry"} /\ moves \in BOOLEAN /\ line.of \in C!Ids
      /\ line.kind = "done" => text = "reply" /\ ~moves
  BY DEF C!Event
<1>2. \A b : C!Patched(b, line) = [b EXCEPT !.text = text, !.moving = moves]
  BY DEF C!Patched
<1>3. DOMAIN v = 1..n /\ n \in Nat /\ \A i \in DOMAIN v : v[i] \in C!Bubble
  BY ElementOf
<1> HIDE DEF text, moves
<1>4. CASE \E i \in DOMAIN v : C!IsTurn(v[i], line.of)
  <2>1. g = [i \in DOMAIN v |-> IF v[i].kind = "turn" /\ v[i].of = line.of
                                  THEN [v[i] EXCEPT !.text = text, !.moving = moves] ELSE v[i]]
    BY <1>2, <1>4 DEF C!Upserted, C!Mapped, C!IsTurn
  <2>2. \A i \in DOMAIN v :
          /\ g[i] \in C!Bubble /\ g[i].kind = v[i].kind /\ g[i].of = v[i].of
          /\ v[i].kind = "turn" /\ v[i].of = line.of => g[i].text = text /\ g[i].moving = moves
          /\ ~(v[i].kind = "turn" /\ v[i].of = line.of) => g[i] = v[i]
    <3> SUFFICES ASSUME NEW i \in DOMAIN v
                 PROVE  /\ g[i] \in C!Bubble /\ g[i].kind = v[i].kind /\ g[i].of = v[i].of
                        /\ v[i].kind = "turn" /\ v[i].of = line.of =>
                             g[i].text = text /\ g[i].moving = moves
                        /\ ~(v[i].kind = "turn" /\ v[i].of = line.of) => g[i] = v[i]
      OBVIOUS
    <3>1. CASE v[i].kind = "turn" /\ v[i].of = line.of
      <4>1. g[i] = [v[i] EXCEPT !.text = text, !.moving = moves]
        BY <2>1, <3>1
      <4> DEFINE b == v[i]  c == g[i]
      <4>2. b \in C!Bubble /\ c = [b EXCEPT !.text = text, !.moving = moves]
        BY <1>3, <4>1
      <4> HIDE DEF b, c
      <4>3. /\ c \in C!Bubble /\ c.kind = b.kind /\ c.of = b.of
            /\ c.text = text /\ c.moving = moves
        BY <1>1, <4>2 DEF C!Bubble
      <4> QED BY <3>1, <4>3 DEF b, c
    <3>2. CASE ~(v[i].kind = "turn" /\ v[i].of = line.of)
      BY <1>3, <2>1, <3>2
    <3> QED BY <3>1, <3>2
  <2>3. g \in Seq(C!Bubble) /\ DOMAIN g = DOMAIN v
    BY <2>1, <2>2, Reshaped
  <2>4. Apart(g)
    BY <2>2, <2>3 DEF Apart, IsReply
  <2>5. ASSUME NEW ids, Shows(v, ids), line.of \notin ids
        PROVE  Shows(g, ids) /\ (line.kind = "done" => Shows(g, ids \cup {line.of}))
    <3>1. Shows(g, ids)
      <4> SUFFICES ASSUME NEW id \in ids
                   PROVE  \E i \in DOMAIN g : IsReply(g[i]) /\ g[i].of = id /\ g[i].text = "reply" /\ ~g[i].moving
        BY DEF Shows
      <4>1. PICK i \in DOMAIN v : IsReply(v[i]) /\ v[i].of = id /\ v[i].text = "reply" /\ ~v[i].moving
        BY <2>5 DEF Shows
      <4>2. g[i] = v[i]
        BY <2>2, <2>5, <4>1
      <4> QED BY <2>3, <4>1, <4>2
    <3>2. ASSUME line.kind = "done"
          PROVE  Shows(g, {line.of})
      <4>1. PICK i \in DOMAIN v : v[i].kind = "turn" /\ v[i].of = line.of
        BY <1>4 DEF C!IsTurn
      <4>2. g[i].kind = "turn" /\ g[i].of = line.of /\ g[i].text = "reply" /\ ~g[i].moving
        BY <1>1, <2>2, <3>2, <4>1
      <4> QED BY <2>3, <4>2 DEF Shows, IsReply
    <3> QED BY <3>1, <3>2 DEF Shows
  <2> QED BY <2>2, <2>3, <2>4, <2>5
<1>5. CASE ~ \E i \in DOMAIN v : C!IsTurn(v[i], line.of)
  <2> DEFINE old == [kind |-> "turn", of |-> line.of, text |-> "sofar", moving |-> FALSE]
             b == C!Patched(old, line)
  <2>1. b \in C!Bubble /\ b.kind = "turn" /\ b.of = line.of /\ b.text = text /\ b.moving = moves
    <3>1. old \in C!Bubble /\ old.kind = "turn" /\ old.of = line.of
      BY <1>1 DEF C!Bubble
    <3>2. b = [old EXCEPT !.text = text, !.moving = moves]
      BY DEF C!Patched, text, moves
    <3> HIDE DEF old, b
    <3> QED BY <1>1, <3>1, <3>2 DEF C!Bubble
  <2>2. g = Append(v, b)
    BY <1>5 DEF C!Upserted
  <2> HIDE DEF old, b
  <2>3. /\ g \in Seq(C!Bubble) /\ DOMAIN g = DOMAIN v \cup {n + 1} /\ n + 1 \notin DOMAIN v
        /\ g[n + 1] = b /\ \A i \in DOMAIN v : g[i] = v[i]
    BY <2>1, <2>2, AppendOf
  <2>4. \A i \in DOMAIN v : IsReply(v[i]) => v[i].of # line.of
    BY <1>5 DEF C!IsTurn, IsReply
  <2>5. Apart(g)
    BY <2>1, <2>3, <2>4 DEF Apart, IsReply
  <2>6. ASSUME NEW ids, Shows(v, ids)
        PROVE  Shows(g, ids) /\ (line.kind = "done" => Shows(g, ids \cup {line.of}))
    <3>1. Shows(g, ids)
      BY <2>3, <2>6 DEF Shows
    <3>2. line.kind = "done" => Shows(g, {line.of})
      BY <1>1, <2>1, <2>3 DEF Shows, IsReply
    <3> QED BY <3>1, <3>2 DEF Shows
  <2> QED BY <2>1, <2>3, <2>5, <2>6
<1> QED BY <1>4, <1>5

\* The list without the element at k.
LEMMA WithoutOne ==
  ASSUME NEW v \in Seq(C!Bubble), NEW k \in DOMAIN v, NEW g, g = C!RemoveAt(v, k), Apart(v)
  PROVE  /\ g \in Seq(C!Bubble) /\ Apart(g)
         /\ \A i \in DOMAIN g : \E j \in DOMAIN v \ {k} : g[i] = v[j]
         /\ \A j \in DOMAIN v \ {k} : \E i \in DOMAIN g : g[i] = v[j]
<1> DEFINE n == Len(v)
           a == SubSeq(v, 1, k - 1)
           b == SubSeq(v, k + 1, n)
<1>1. DOMAIN v = 1..n /\ n \in Nat /\ k \in 1..n
  BY ElementOf
<1>2. g = a \o b
  BY DEF C!RemoveAt
<1>3. a \in Seq(C!Bubble) /\ Len(a) = k - 1 /\ \A i \in 1..(k - 1) : a[i] = v[i]
  BY <1>1, SubSeqProperties
<1>4. b \in Seq(C!Bubble) /\ Len(b) = n - k /\ \A i \in 1..(n - k) : b[i] = v[k + i]
  <2>1. k + 1 \in Int /\ n \in Int /\ (k + 1 <= n => k + 1 >= 1) /\ n <= Len(v)
    BY <1>1
  <2> QED BY <1>1, <2>1, SubSeqProperties
<1> HIDE DEF a, b, n
<1>5. /\ g \in Seq(C!Bubble) /\ Len(g) = n - 1
      /\ \A i \in 1..(n - 1) : g[i] = IF i < k THEN v[i] ELSE v[i + 1]
  <2>1. /\ a \o b \in Seq(C!Bubble) /\ Len(a \o b) = Len(a) + Len(b)
        /\ \A i \in 1..(Len(a) + Len(b)) : (a \o b)[i] = IF i <= Len(a) THEN a[i] ELSE b[i - Len(a)]
    BY <1>3, <1>4, ConcatProperties
  <2>2. ASSUME NEW i \in 1..(n - 1)
        PROVE  g[i] = IF i < k THEN v[i] ELSE v[i + 1]
    <3>1. CASE i < k
      BY <1>1, <1>2, <1>3, <1>4, <2>1, <3>1
    <3>2. CASE i >= k
      <4>1. i - (k - 1) \in 1..(n - k) /\ k + (i - (k - 1)) = i + 1
        BY <1>1, <3>2
      <4>2. i \in 1..(Len(a) + Len(b)) /\ ~(i <= Len(a)) /\ Len(a) = k - 1
        BY <1>1, <1>3, <1>4, <3>2
      <4>3. g[i] = b[i - (k - 1)]
        BY <1>2, <2>1, <4>2
      <4>4. b[i - (k - 1)] = v[k + (i - (k - 1))]
        BY <1>4, <4>1
      <4>5. ~(i < k)
        BY <1>1, <3>2
      <4> QED BY <4>1, <4>3, <4>4, <4>5
    <3> QED BY <1>1, <3>1, <3>2
  <2> QED BY <1>1, <1>2, <1>3, <1>4, <2>1, <2>2
<1>6. DOMAIN g = 1..(n - 1)
  BY <1>5, ElementOf
<1> DEFINE f == [i \in DOMAIN g |-> IF i < k THEN i ELSE i + 1]
<1>7. /\ \A i \in DOMAIN g : f[i] \in DOMAIN v \ {k} /\ g[i] = v[f[i]]
      /\ \A i, j \in DOMAIN g : f[i] = f[j] => i = j
  BY <1>1, <1>5, <1>6
<1>8. \A j \in DOMAIN v \ {k} : \E i \in DOMAIN g : g[i] = v[j]
  <2> SUFFICES ASSUME NEW j \in DOMAIN v \ {k} PROVE \E i \in DOMAIN g : g[i] = v[j]
    OBVIOUS
  <2>1. CASE j < k
    BY <1>1, <1>5, <1>6, <2>1
  <2>2. CASE j > k
    <3>1. j - 1 \in DOMAIN g /\ g[j - 1] = v[j - 1 + 1]
      BY <1>1, <1>5, <1>6, <2>2
    <3> QED BY <1>1, <3>1
  <2> QED BY <1>1, <2>1, <2>2
<1> HIDE DEF f
<1>9. Apart(g)
  BY <1>7 DEF Apart, IsReply
<1>10. \A i \in DOMAIN g : \E j \in DOMAIN v \ {k} : g[i] = v[j]
  BY <1>7
<1> QED BY <1>5, <1>8, <1>9, <1>10

LEMMA NamedView ==
  ASSUME NEW v \in Seq(C!Bubble), NEW id, NEW g, g = C!Named(v, id), Apart(v)
  PROVE  /\ g \in Seq(C!Bubble) /\ Apart(g)
         /\ \A ids : Shows(v, ids) => Shows(g, ids)
         /\ \A i \in DOMAIN g : g[i].kind \in {"wait", "histPet"} =>
              /\ g[i].kind = "wait" => g[i].of # id
              /\ \E j \in DOMAIN v : g[i] = v[j]
<1> DEFINE n == Len(v)
           Waits == {i \in DOMAIN v : v[i].kind = "wait" /\ v[i].of = id}
           HasTurn == \E i \in DOMAIN v : C!IsTurn(v[i], id)
<1>1. DOMAIN v = 1..n /\ n \in Nat /\ \A i \in DOMAIN v : v[i] \in C!Bubble
  BY ElementOf
<1>2. CASE HasTurn /\ Waits # {}
  <2>1. PICK k \in DOMAIN v : Waits = {k}
    BY <1>2 DEF Apart
  <2>2. \E i \in 1..Len(v) : v[i].kind = "wait" /\ v[i].of = id
    BY <1>1, <1>2
  <2>3. {i \in 1..Len(v) : v[i].kind = "wait" /\ v[i].of = id} = {k}
    BY <1>1, <2>1
  <2>4. C!Min({k}) = k
    <3>1. \E x \in {k} : \A y \in {k} : x <= y
      BY <1>1
    <3> QED BY <3>1 DEF C!Min
  <2>5. g = C!RemoveAt(v, k)
    BY <1>2, <2>2, <2>3, <2>4 DEF C!Named, C!RemoveFirstMatch, C!SelectInSeq
  <2>6. /\ g \in Seq(C!Bubble) /\ Apart(g)
        /\ \A i \in DOMAIN g : \E j \in DOMAIN v \ {k} : g[i] = v[j]
        /\ \A j \in DOMAIN v \ {k} : \E i \in DOMAIN g : g[i] = v[j]
    BY <2>5, WithoutOne
  <2>7. v[k].kind = "wait"
    BY <2>1
  <2>8. \A ids : Shows(v, ids) => Shows(g, ids)
    <3> SUFFICES ASSUME NEW ids, Shows(v, ids), NEW a \in ids
                 PROVE  \E i \in DOMAIN g : IsReply(g[i]) /\ g[i].of = a /\ g[i].text = "reply" /\ ~g[i].moving
      BY DEF Shows
    <3>1. PICK j \in DOMAIN v : IsReply(v[j]) /\ v[j].of = a /\ v[j].text = "reply" /\ ~v[j].moving
      BY DEF Shows
    <3>2. j # k
      BY <2>7, <3>1 DEF IsReply
    <3>3. PICK i \in DOMAIN g : g[i] = v[j]
      BY <2>6, <3>2
    <3> QED BY <3>1, <3>3
  <2>9. \A j \in DOMAIN v \ {k} : ~(v[j].kind = "wait" /\ v[j].of = id)
    BY <2>1
  <2> HIDE DEF Waits, HasTurn
  <2> QED BY <2>6, <2>8, <2>9
<1>3. CASE HasTurn /\ Waits = {}
  <2>1. ~ \E i \in 1..Len(v) : v[i].kind = "wait" /\ v[i].of = id
    BY <1>1, <1>3
  <2>2. g = v
    BY <1>3, <2>1 DEF C!Named, C!RemoveFirstMatch
  <2> QED BY <1>3, <2>2
<1>4. CASE ~HasTurn
  <2>1. g = [i \in DOMAIN v |-> IF v[i].kind = "wait" /\ v[i].of = id
                                  THEN [v[i] EXCEPT !.kind = "turn"] ELSE v[i]]
    BY <1>4 DEF C!Named, C!Mapped
  <2>2. ASSUME NEW i \in DOMAIN v
        PROVE  /\ g[i] \in C!Bubble /\ g[i].of = v[i].of
               /\ i \in Waits => g[i].kind = "turn"
               /\ i \notin Waits => g[i] = v[i]
    <3>1. CASE i \in Waits
      <4> DEFINE b == v[i]  c == g[i]
      <4>1. b \in C!Bubble /\ c = [b EXCEPT !.kind = "turn"]
        BY <1>1, <2>1, <3>1
      <4> HIDE DEF b, c
      <4>2. c \in C!Bubble /\ c.kind = "turn" /\ c.of = b.of
        BY <4>1 DEF C!Bubble
      <4> QED BY <3>1, <4>2 DEF b, c
    <3>2. CASE i \notin Waits
      BY <1>1, <2>1, <3>2
    <3> QED BY <3>1, <3>2
  <2>3. g \in Seq(C!Bubble) /\ DOMAIN g = DOMAIN v
    BY <2>1, <2>2, Reshaped
  <2>4. \A i, j \in Waits : i = j
    BY DEF Apart
  <2>5. \A i \in Waits, j \in DOMAIN v : v[j].kind = "histPet" => v[j].of # id
    BY DEF Apart
  <2>6. \A j \in DOMAIN v : v[j].kind = "turn" => v[j].of # id
    BY <1>4 DEF C!IsTurn
  <2>7. \A i \in DOMAIN v : i \in Waits <=> v[i].kind = "wait" /\ v[i].of = id
    OBVIOUS
  <2>8. \A i, j \in DOMAIN v :
          /\ IsReply(v[i]) /\ IsReply(v[j]) /\ v[i].of = v[j].of => i = j
          /\ v[i].kind = "wait" /\ v[j].kind \in {"wait", "histPet"} /\ v[i].of = v[j].of => i = j
    BY DEF Apart
  <2>9. \A ids : Shows(v, ids) => \A a \in ids : \E i \in DOMAIN v :
          IsReply(v[i]) /\ v[i].of = a /\ v[i].text = "reply" /\ ~v[i].moving
    BY DEF Shows
  <2> HIDE DEF Waits, HasTurn

  <2>10. Apart(g)
    <3> SUFFICES ASSUME NEW i \in DOMAIN v, NEW j \in DOMAIN v, g[i].of = g[j].of
                 PROVE  /\ IsReply(g[i]) /\ IsReply(g[j]) => i = j
                        /\ g[i].kind = "wait" /\ g[j].kind \in {"wait", "histPet"} => i = j
      BY <2>3 DEF Apart
    <3>1. v[i].of = v[j].of
      BY <2>2
    <3> QED BY <2>2, <2>4, <2>5, <2>6, <2>7, <2>8, <3>1 DEF IsReply
  <2>11. \A ids : Shows(v, ids) => Shows(g, ids)
    <3> SUFFICES ASSUME NEW ids, Shows(v, ids), NEW a \in ids
                 PROVE  \E i \in DOMAIN g : IsReply(g[i]) /\ g[i].of = a /\ g[i].text = "reply" /\ ~g[i].moving
      BY DEF Shows
    <3>1. PICK i \in DOMAIN v : IsReply(v[i]) /\ v[i].of = a /\ v[i].text = "reply" /\ ~v[i].moving
      BY <2>9
    <3>2. g[i] = v[i]
      BY <2>2, <2>7, <3>1 DEF IsReply
    <3> QED BY <2>3, <3>1, <3>2
  <2>12. \A i \in DOMAIN g : g[i].kind \in {"wait", "histPet"} =>
           /\ g[i].kind = "wait" => g[i].of # id
           /\ \E j \in DOMAIN v : g[i] = v[j]
    BY <2>2, <2>3, <2>7
  <2> QED BY <2>3, <2>10, <2>11, <2>12
<1> QED BY <1>2, <1>3, <1>4

-----------------------------------------------------------------------------
(* What each step makes of the lines not yet read                           *)
LEMMA OutEvent ==
  ASSUME NEW o \in Seq(Line), NEW st, NEW pd, NEW td, NEW l, OutOK(o, st, pd, td, l),
         NEW line \in C!Event, line.of <= l, ~IsPet(st, line.of),
         NEW more, \A id \in C!Ids : IsPet(st, id) => IsPet(more, id),
         line.kind = "done" => IsPet(more, line.of)
  PROVE  OutOK(Append(o, line), more, pd, td, l)
<1> DEFINE g == Append(o, line)
           n == Len(o)
<1>1. /\ DOMAIN g = DOMAIN o \cup {n + 1} /\ n + 1 \notin DOMAIN o
      /\ g[n + 1] = line /\ \A i \in DOMAIN o : g[i] = o[i] /\ i < n + 1
      /\ n \in Nat /\ DOMAIN o = 1..n
  BY AppendOf, ElementOf DEF Line
<1>2. \A p \in DOMAIN o : o[p] \in Line /\ o[p].of \in C!Ids /\ (o[p].kind = "res" => o[p].turns \in Seq(C!Stored))
  BY ElementOf, Lines
<1>3. line.of \in C!Ids /\ line.kind \in {"progress", "done", "error"}
  BY DEF C!Event
<1> HIDE DEF g, n
<1> SUFFICES ASSUME NEW p \in DOMAIN g
             PROVE  /\ g[p].of <= l
                    /\ g[p].kind = "done" =>
                         /\ IsPet(more, g[p].of)
                         /\ \A q \in DOMAIN g : q > p /\ IsEvent(g[q]) => g[q].of # g[p].of
                    /\ g[p].kind = "res" =>
                         /\ OnePet(g[p].turns)
                         /\ \A id \in C!Ids : IsPet(g[p].turns, id) => IsPet(more, id)
                         /\ \A q \in DOMAIN g : q > p /\ IsEvent(g[q]) => ~IsPet(g[p].turns, g[q].of)
                         /\ \A r \in pd : r.id = g[p].of /\ r.kind = "history" =>
                              /\ \A q \in DOMAIN g : q < p /\ g[q].kind = "done" => IsPet(g[p].turns, g[q].of)
                              /\ \A id \in td[r.win] : IsPet(g[p].turns, id)
  BY DEF OutOK, g
<1>4. CASE p = n + 1
  <2>1. g[p] = line /\ ~(\E q \in DOMAIN g : q > p)
    BY <1>1, <1>4
  <2> QED BY <1>3, <2>1
<1>5. CASE p \in DOMAIN o
  <2>1. g[p] = o[p] /\ o[p].of \in C!Ids
    BY <1>1, <1>2, <1>5
  <2>2. /\ o[p].of <= l
        /\ o[p].kind = "done" =>
             /\ IsPet(st, o[p].of)
             /\ \A q \in DOMAIN o : q > p /\ IsEvent(o[q]) => o[q].of # o[p].of
        /\ o[p].kind = "res" =>
             /\ OnePet(o[p].turns)
             /\ \A id \in C!Ids : IsPet(o[p].turns, id) => IsPet(st, id)
             /\ \A q \in DOMAIN o : q > p /\ IsEvent(o[q]) => ~IsPet(o[p].turns, o[q].of)
             /\ \A r \in pd : r.id = o[p].of /\ r.kind = "history" =>
                  /\ \A q \in DOMAIN o : q < p /\ o[q].kind = "done" => IsPet(o[p].turns, o[q].of)
                  /\ \A id \in td[r.win] : IsPet(o[p].turns, id)
    BY <1>5 DEF OutOK
  <2>3. ASSUME o[p].kind = "done"
        PROVE  /\ IsPet(more, o[p].of)
               /\ \A q \in DOMAIN g : q > p /\ IsEvent(g[q]) => g[q].of # o[p].of
    <3>1. IsPet(more, o[p].of)
      BY <2>1, <2>2, <2>3
    <3>2. line.of # o[p].of
      BY <2>2, <2>3
    <3> QED BY <1>1, <2>2, <2>3, <3>1, <3>2
  <2>4. ASSUME o[p].kind = "res"
        PROVE  /\ \A id \in C!Ids : IsPet(o[p].turns, id) => IsPet(more, id)
               /\ \A q \in DOMAIN g : q > p /\ IsEvent(g[q]) => ~IsPet(o[p].turns, g[q].of)
               /\ \A q \in DOMAIN g : q < p => q \in DOMAIN o /\ g[q] = o[q]
    <3>1. ~IsPet(o[p].turns, line.of)
      BY <1>3, <2>2, <2>4
    <3>2. \A q \in DOMAIN g : q < p => q \in DOMAIN o /\ g[q] = o[q]
      BY <1>1, <1>5
    <3> QED BY <1>1, <2>2, <2>4, <3>1, <3>2
  <2> QED BY <2>1, <2>2, <2>3, <2>4
<1> QED BY <1>1, <1>4, <1>5

LEMMA OutAnswer ==
  ASSUME NEW o \in Seq(Line), NEW st \in Seq(C!Stored), NEW pd, NEW td, NEW l,
         OutOK(o, st, pd, td, l), OnePet(st),
         NEW id \in C!Ids, id <= l, NEW turns \in {<< >>, st},
         \A r \in pd : r.id = id /\ r.kind = "history" =>
           turns = st /\ \A k \in td[r.win] : IsPet(st, k)
  PROVE  OutOK(Append(o, C!Answers(id, turns)), st, pd, td, l)
<1> DEFINE line == C!Answers(id, turns)
           g == Append(o, line)
           n == Len(o)
<1>1. line \in Line /\ line.kind = "res" /\ line.of = id /\ line.turns = turns
  <2>1. turns \in Seq(C!Stored)
    <3>1. << >> \in Seq(C!Stored)
      OBVIOUS
    <3> QED BY <3>1
  <2> QED BY <2>1 DEF C!Answers, Line, C!Answer
<1>2. /\ DOMAIN g = DOMAIN o \cup {n + 1} /\ n + 1 \notin DOMAIN o
      /\ g[n + 1] = line /\ \A i \in DOMAIN o : g[i] = o[i] /\ i < n + 1
      /\ n \in Nat /\ DOMAIN o = 1..n
  <2> HIDE DEF line
  <2> QED BY <1>1, AppendOf, ElementOf
<1>3. OnePet(turns) /\ \A k \in C!Ids : IsPet(turns, k) => IsPet(st, k)
  BY DEF OnePet, IsPet
<1> HIDE DEF g, n, line
<1> SUFFICES ASSUME NEW p \in DOMAIN g
             PROVE  /\ g[p].of <= l
                    /\ g[p].kind = "done" =>
                         /\ IsPet(st, g[p].of)
                         /\ \A q \in DOMAIN g : q > p /\ IsEvent(g[q]) => g[q].of # g[p].of
                    /\ g[p].kind = "res" =>
                         /\ OnePet(g[p].turns)
                         /\ \A k \in C!Ids : IsPet(g[p].turns, k) => IsPet(st, k)
                         /\ \A q \in DOMAIN g : q > p /\ IsEvent(g[q]) => ~IsPet(g[p].turns, g[q].of)
                         /\ \A r \in pd : r.id = g[p].of /\ r.kind = "history" =>
                              /\ \A q \in DOMAIN g : q < p /\ g[q].kind = "done" => IsPet(g[p].turns, g[q].of)
                              /\ \A k \in td[r.win] : IsPet(g[p].turns, k)
  BY DEF OutOK, g, line
<1>4. CASE p = n + 1
  <2>1. g[p] = line /\ ~(\E q \in DOMAIN g : q > p)
    BY <1>2, <1>4
  <2>2. \A q \in DOMAIN g : q < p /\ g[q].kind = "done" => IsPet(st, g[q].of)
    BY <1>2, <1>4 DEF OutOK
  <2> QED BY <1>1, <1>3, <2>1, <2>2
<1>5. CASE p \in DOMAIN o
  <2>1. g[p] = o[p]
    BY <1>2, <1>5
  <2>2. \A q \in DOMAIN g : IsEvent(g[q]) => q \in DOMAIN o /\ g[q] = o[q]
    BY <1>1, <1>2 DEF IsEvent
  <2>3. \A q \in DOMAIN g : g[q].kind = "done" => q \in DOMAIN o /\ g[q] = o[q]
    BY <1>1, <1>2
  <2> QED BY <1>5, <2>1, <2>2, <2>3 DEF OutOK
<1> QED BY <1>2, <1>4, <1>5

\* The first line is read: what it says is known from then on.
LEMMA OutTail ==
  ASSUME NEW o \in Seq(Line), o # << >>, NEW st, NEW pd, NEW td, NEW l, OutOK(o, st, pd, td, l),
         NEW fewer, fewer \subseteq pd, NEW more,
         \A r \in pd : \A id \in more[r.win] :
           id \in td[r.win] \/ (o[1].kind = "done" /\ id = o[1].of)
  PROVE  OutOK(Tail(o), st, fewer, more, l)
<1> DEFINE g == Tail(o)
<1>1. \A i \in DOMAIN g : i \in Nat /\ i >= 1 /\ i + 1 \in DOMAIN o /\ g[i] = o[i + 1]
  BY TailOf, ElementOf
<1>2. 1 \in DOMAIN o
  BY ElementOf
<1> HIDE DEF g
<1> SUFFICES ASSUME NEW p \in DOMAIN g
             PROVE  /\ g[p].of <= l
                    /\ g[p].kind = "done" =>
                         /\ IsPet(st, g[p].of)
                         /\ \A q \in DOMAIN g : q > p /\ IsEvent(g[q]) => g[q].of # g[p].of
                    /\ g[p].kind = "res" =>
                         /\ OnePet(g[p].turns)
                         /\ \A k \in C!Ids : IsPet(g[p].turns, k) => IsPet(st, k)
                         /\ \A q \in DOMAIN g : q > p /\ IsEvent(g[q]) => ~IsPet(g[p].turns, g[q].of)
                         /\ \A r \in fewer : r.id = g[p].of /\ r.kind = "history" =>
                              /\ \A q \in DOMAIN g : q < p /\ g[q].kind = "done" => IsPet(g[p].turns, g[q].of)
                              /\ \A k \in more[r.win] : IsPet(g[p].turns, k)
  BY DEF OutOK, g
<1>3. g[p] = o[p + 1] /\ p + 1 \in DOMAIN o /\ 1 < p + 1 /\ p \in Nat
  BY <1>1
<1>4. \A q \in DOMAIN g : (q > p => q + 1 > p + 1) /\ (q < p => q + 1 < p + 1)
  BY <1>1
<1>5. /\ o[p + 1].of <= l
      /\ o[p + 1].kind = "done" =>
           /\ IsPet(st, o[p + 1].of)
           /\ \A q \in DOMAIN o : q > p + 1 /\ IsEvent(o[q]) => o[q].of # o[p + 1].of
      /\ o[p + 1].kind = "res" =>
           /\ OnePet(o[p + 1].turns)
           /\ \A id \in C!Ids : IsPet(o[p + 1].turns, id) => IsPet(st, id)
           /\ \A q \in DOMAIN o : q > p + 1 /\ IsEvent(o[q]) => ~IsPet(o[p + 1].turns, o[q].of)
           /\ \A r \in pd : r.id = o[p + 1].of /\ r.kind = "history" =>
                /\ \A q \in DOMAIN o : q < p + 1 /\ o[q].kind = "done" => IsPet(o[p + 1].turns, o[q].of)
                /\ \A id \in td[r.win] : IsPet(o[p + 1].turns, id)
  BY <1>3 DEF OutOK
<1>6. ASSUME o[p + 1].kind = "res", NEW r \in fewer, r.id = g[p].of, r.kind = "history"
      PROVE  /\ \A q \in DOMAIN g : q < p /\ g[q].kind = "done" => IsPet(g[p].turns, g[q].of)
             /\ \A k \in more[r.win] : IsPet(g[p].turns, k)
  <2>1. /\ \A q \in DOMAIN o : q < p + 1 /\ o[q].kind = "done" => IsPet(o[p + 1].turns, o[q].of)
        /\ \A id \in td[r.win] : IsPet(o[p + 1].turns, id)
    BY <1>3, <1>5, <1>6
  <2> QED BY <1>1, <1>2, <1>3, <1>4, <2>1
<1> QED BY <1>1, <1>3, <1>4, <1>5, <1>6

-----------------------------------------------------------------------------
(* The requests                                                             *)
LEMMA NewRequests ==
  ASSUME C!BoundsFit, NEW l \in Nat, l + 1 <= MaxSends + MaxMounts, NEW w \in Windows
  PROVE  /\ l + 1 \in C!Ids /\ C!SendRequest(w, l + 1) \in C!Request
         /\ [id |-> l + 1, win |-> w, kind |-> "history"] \in C!Request
BY Bounds DEF C!Ids, C!Request, C!SendRequest

LEMMA Requests ==
  ASSUME C!BoundsFit, NEW r \in C!Request
  PROVE  r.id \in C!Ids /\ r.id \in Nat /\ r.win \in Windows /\ r.kind \in {"history", "send"}
BY Identifiers DEF C!Request

LEMMA Turns ==
  ASSUME C!BoundsFit, NEW t \in C!Turn
  PROVE  /\ t # C!NoTurn => t.of \in C!Ids /\ t.step \in {"pre", "stream"} /\ t.lines \in 0..MaxLines
         /\ t.step # "idle" => t # C!NoTurn
         /\ C!NoTurn.of = 0 /\ t.of \in Nat
<1>1. C!NoTurn.of = 0 /\ C!NoTurn.step = "idle"
  BY DEF C!NoTurn
<1>2. CASE t = C!NoTurn
  BY <1>1, <1>2
<1>3. CASE t # C!NoTurn
  <2>1. t \in [of : C!Ids, step : {"pre", "stream"}, lines : 0..MaxLines]
    BY <1>3 DEF C!Turn
  <2> QED BY <1>1, <1>3, <2>1, Identifiers
<1> QED BY <1>2, <1>3

\* A window asks; the request reaches the harness if it lives.
LEMMA Queued ==
  ASSUME NEW p \in Seq(C!Request), NEW r \in C!Request, NEW q, q = p \/ q = Append(p, r)
  PROVE  /\ q \in Seq(C!Request)
         /\ \A i \in DOMAIN q : \/ i \in DOMAIN p /\ q[i] = p[i]
                                \/ q[i] = r /\ i = Len(p) + 1 /\ i \notin DOMAIN p
<1>1. CASE q = p
  BY <1>1
<1>2. CASE q = Append(p, r)
  BY <1>2, AppendOf
<1> QED BY <1>1, <1>2

LEMMA Asked ==
  ASSUME C!BoundsFit, NEW p \in Seq(C!Request), NEW pd \in SUBSET C!Request, NEW l \in Nat, NEW sh,
         NEW t \in C!Turn, IdsOK(p, pd, l, sh, t),
         NEW r \in C!Request, r.id = l + 1, NEW more, sh \subseteq more, r.win \in more,
         NEW q, q = p \/ q = Append(p, r)
  PROVE  IdsOK(q, pd \cup {r}, r.id, more, t)
<1>1. /\ q \in Seq(C!Request)
      /\ \A i \in DOMAIN q : \/ i \in DOMAIN p /\ q[i] = p[i]
                             \/ q[i] = r /\ i = Len(p) + 1 /\ i \notin DOMAIN p
  BY Queued
<1>2. /\ \A i \in DOMAIN p : p[i].id \in Nat /\ p[i].id <= l /\ p[i].id # l + 1
      /\ \A x \in pd : x.id \in Nat /\ x.id <= l /\ x.id # l + 1
  <2>1. \A i \in DOMAIN p : p[i] \in C!Request
    BY ElementOf
  <2>2. \A x \in C!Request : x.id \in Nat
    BY Requests
  <2> QED BY <2>1, <2>2 DEF IdsOK
<1>3. \A i \in DOMAIN q : q[i].id <= l + 1
  BY <1>1, <1>2
<1>4. \A i, j \in DOMAIN q : q[i].id = q[j].id => i = j
  BY <1>1, <1>2 DEF IdsOK
<1>5. \A x \in pd \cup {r} : x.id <= l + 1 /\ x.win \in more
  BY <1>2 DEF IdsOK
<1>6. \A x \in pd \cup {r}, i \in DOMAIN q : q[i].id = x.id => q[i] = x
  BY <1>1, <1>2 DEF IdsOK
<1>7. t # C!NoTurn => t.of <= l + 1 /\ \A i \in DOMAIN q : q[i].id # t.of
  <2> SUFFICES ASSUME t # C!NoTurn PROVE t.of <= l + 1 /\ \A i \in DOMAIN q : q[i].id # t.of
    OBVIOUS
  <2>1. t.of \in Nat /\ t.of <= l /\ \A i \in DOMAIN p : p[i].id # t.of
    BY Turns DEF IdsOK
  <2> QED BY <1>1, <2>1
<1> QED BY <1>3, <1>4, <1>5, <1>6, <1>7 DEF IdsOK

LEMMA AskedStored ==
  ASSUME C!BoundsFit, NEW p \in Seq(C!Request), NEW l \in Nat, NEW t, NEW st, StoredOK(st, p, l, t),
         NEW r \in C!Request, r.id = l + 1, NEW q, q = p \/ q = Append(p, r)
  PROVE  StoredOK(st, q, r.id, t)
<1>1. /\ q \in Seq(C!Request)
      /\ \A i \in DOMAIN q : \/ i \in DOMAIN p /\ q[i] = p[i]
                             \/ q[i] = r /\ i = Len(p) + 1 /\ i \notin DOMAIN p
  BY Queued
<1>2. C!Ids \subseteq Nat
  BY Identifiers
<1>3. \A id \in C!Ids : IsPet(st, id) => id <= l /\ t.of # id /\ \A i \in DOMAIN p : p[i].id # id
  BY DEF StoredOK
<1>4. ASSUME NEW id \in C!Ids, IsPet(st, id)
      PROVE  id <= l + 1 /\ t.of # id /\ \A i \in DOMAIN q : q[i].id # id
  <2>1. id <= l /\ t.of # id /\ (\A i \in DOMAIN p : p[i].id # id) /\ id \in Nat
    BY <1>2, <1>3, <1>4
  <2> QED BY <1>1, <2>1
<1> QED BY <1>4 DEF StoredOK

\* The harness takes the oldest line.
LEMMA Taken ==
  ASSUME C!BoundsFit, NEW p \in Seq(C!Request), p # << >>, NEW pd, NEW l, NEW sh, NEW t,
         IdsOK(p, pd, l, sh, t), NEW st, StoredOK(st, p, l, t)
  PROVE  /\ Tail(p) \in Seq(C!Request) /\ p[1] \in C!Request /\ Head(p) = p[1] /\ p[1].id <= l
         /\ \A r \in pd : r.id = p[1].id => r = p[1]
         /\ t # C!NoTurn => t.of # p[1].id
         /\ ~IsPet(st, p[1].id)
         /\ IdsOK(Tail(p), pd, l, sh, t) /\ StoredOK(st, Tail(p), l, t)
         /\ \A i \in DOMAIN Tail(p) : Tail(p)[i].id # p[1].id
<1> DEFINE q == Tail(p)
<1>1. /\ q \in Seq(C!Request)
      /\ \A i \in DOMAIN q : i \in Nat /\ i # 0 /\ i + 1 \in DOMAIN p /\ q[i] = p[i + 1]
  BY TailOf, ElementOf
<1>2. 1 \in DOMAIN p /\ p[1] \in C!Request /\ Head(p) = p[1]
  BY ElementOf
<1>3. p[1].id \in C!Ids
  BY <1>2, Requests
<1> HIDE DEF q
<1>4. \A i \in DOMAIN q : q[i].id # p[1].id
  BY <1>1, <1>2 DEF IdsOK
<1>5. IdsOK(q, pd, l, sh, t)
  BY <1>1 DEF IdsOK
<1>6. StoredOK(st, q, l, t)
  BY <1>1 DEF StoredOK
<1>7. ~IsPet(st, p[1].id)
  BY <1>2, <1>3 DEF StoredOK
<1>8. p[1].id <= l /\ (t # C!NoTurn => t.of # p[1].id) /\ \A r \in pd : r.id = p[1].id => r = p[1]
  BY <1>2 DEF IdsOK
<1> QED BY <1>1, <1>2, <1>4, <1>5, <1>6, <1>7, <1>8 DEF q

\* A turn goes on, ends, or begins with a request that was taken.
LEMMA TurnMayBecome ==
  ASSUME C!BoundsFit, NEW p, NEW pd, NEW l, NEW sh, NEW t \in C!Turn, IdsOK(p, pd, l, sh, t),
         NEW st, StoredOK(st, p, l, t), NEW new \in C!Turn
  PROVE  /\ new = C!NoTurn \/ (new.of = t.of /\ t # C!NoTurn) =>
              IdsOK(p, pd, l, sh, new) /\ StoredOK(st, p, l, new)
         /\ new.of <= l /\ ~IsPet(st, new.of) /\ (\A i \in DOMAIN p : p[i].id # new.of) =>
              IdsOK(p, pd, l, sh, new) /\ StoredOK(st, p, l, new)
<1>1. C!NoTurn.of = 0 /\ \A id \in C!Ids : id # 0
  BY Turns, Identifiers
<1>2. new = C!NoTurn \/ (new.of = t.of /\ t # C!NoTurn) =>
        IdsOK(p, pd, l, sh, new) /\ StoredOK(st, p, l, new)
  BY <1>1 DEF IdsOK, StoredOK
<1>3. new.of <= l /\ ~IsPet(st, new.of) /\ (\A i \in DOMAIN p : p[i].id # new.of) =>
        IdsOK(p, pd, l, sh, new) /\ StoredOK(st, p, l, new)
  BY DEF IdsOK, StoredOK
<1> QED BY <1>2, <1>3

\* A turn is added to the stored ones.
LEMMA Kept ==
  ASSUME NEW st \in Seq(C!Stored), NEW e \in C!Stored
  PROVE  /\ Append(st, e) \in Seq(C!Stored)
         /\ \A id : IsPet(Append(st, e), id) <=> IsPet(st, id) \/ (e.role = "pet" /\ e.of = id)
         /\ OnePet(st) /\ (e.role = "pet" => ~IsPet(st, e.of)) => OnePet(Append(st, e))
<1> DEFINE g == Append(st, e)
           n == Len(st) + 1
<1>1. /\ g \in Seq(C!Stored) /\ DOMAIN g = DOMAIN st \cup {n} /\ g[n] = e /\ n \notin DOMAIN st
      /\ \A i \in DOMAIN st : g[i] = st[i]
  BY AppendOf
<1> HIDE DEF g, n
<1>2. \A id : IsPet(g, id) <=> IsPet(st, id) \/ (e.role = "pet" /\ e.of = id)
  BY <1>1 DEF IsPet
<1>3. OnePet(st) /\ (e.role = "pet" => ~IsPet(st, e.of)) => OnePet(g)
  BY <1>1 DEF OnePet, IsPet
<1> QED BY <1>1, <1>2, <1>3 DEF g

LEMMA SaidLines ==
  ASSUME NEW kind \in {"progress", "done", "error"}, NEW id \in C!Ids, NEW turns \in Seq(C!Stored)
  PROVE  /\ C!Says(kind, id) \in C!Event /\ C!Says(kind, id) \in Line
         /\ C!Says(kind, id).kind = kind /\ C!Says(kind, id).of = id
         /\ IsEvent(C!Says(kind, id))
         /\ C!Answers(id, turns) \in Line /\ ~IsEvent(C!Answers(id, turns))
         /\ C!Answers(id, turns).kind = "res" /\ C!Answers(id, turns).of = id
BY DEF C!Says, C!Answers, C!Event, C!Answer, Line, IsEvent

\* What the harness does leaves the windows as they are, and it says nothing
\* more of a turn whose reply is stored.
LEMMA Unseen ==
  ASSUME C!TypeOK, ToldInv, ViewInv, UNCHANGED C!ui,
         \A id \in C!Ids : IsPet(stored, id) => IsPet(stored', id),
         \A p \in DOMAIN out' :
           IsEvent(out'[p]) => \/ \E q \in DOMAIN out : out[q] = out'[p]
                               \/ ~IsPet(stored, out'[p].of)
  PROVE  ToldInv' /\ ViewInv'
<1>1. UNCHANGED <<shown, view, waiting, told, last>>
  BY DEF C!ui
<1>2. ASSUME NEW id \in C!Ids, IsPet(stored, id), Said(out, id)
      PROVE  IsPet(stored', id) /\ Said(out', id)
  BY <1>2 DEF Said
<1>3. ASSUME NEW w \in Windows
      PROVE  /\ \A id \in told[w] : id \in C!Ids
             /\ \A i \in DOMAIN view[w] : view[w][i].of \in C!Ids
  <2>1. view[w] \in Seq(C!Bubble) /\ told[w] \subseteq C!Ids
    BY DEF C!TypeOK
  <2>2. \A i \in DOMAIN view[w] : view[w][i] \in C!Bubble
    BY <2>1, ElementOf
  <2>3. \A b \in C!Bubble : b.of \in C!Ids
    BY DEF C!Bubble
  <2> QED BY <2>1, <2>2, <2>3
<1>4. ToldInv'
  BY <1>1, <1>2, <1>3 DEF ToldInv
<1>5. ViewInv'
  <2> SUFFICES ASSUME NEW w \in Windows
               PROVE  /\ w \notin shown' => view'[w] = << >> /\ told'[w] = {}
                      /\ Window(w, view'[w], told'[w], waiting', last') /\ Past(view'[w], stored', out')
    BY DEF ViewInv, Past
  <2>1. /\ w \notin shown => view[w] = << >> /\ told[w] = {}
        /\ Window(w, view[w], told[w], waiting, last) /\ Past(view[w], stored, out)
    BY DEF ViewInv
  <2>2. Past(view'[w], stored', out')
    BY <1>1, <1>2, <1>3, <2>1 DEF Past
  <2>3. Window(w, view'[w], told'[w], waiting', last')
    BY <1>1, <2>1
  <2> QED BY <1>1, <2>1, <2>2, <2>3
<1> QED BY <1>4, <1>5

\* A line of a turn that is not over is written, or two lines.
LEMMA Written ==
  ASSUME NEW line \in Line, NEW o \in Seq(Line),
         NEW old, \A p \in DOMAIN o : IsEvent(o[p]) => (\E q \in DOMAIN old : old[q] = o[p])
                                                       \/ ~IsPet(stored, o[p].of),
         IsEvent(line) => ~IsPet(stored, line.of)
  PROVE  /\ Append(o, line) \in Seq(Line)
         /\ \A p \in DOMAIN Append(o, line) :
              IsEvent(Append(o, line)[p]) =>
                \/ \E q \in DOMAIN old : old[q] = Append(o, line)[p]
                \/ ~IsPet(stored, Append(o, line)[p].of)
<1> DEFINE g == Append(o, line)
           n == Len(o) + 1
<1>1. /\ g \in Seq(Line) /\ DOMAIN g = DOMAIN o \cup {n} /\ g[n] = line
      /\ \A i \in DOMAIN o : g[i] = o[i]
  BY AppendOf
<1> HIDE DEF g, n
<1>2. \A p \in DOMAIN g : IsEvent(g[p]) => (\E q \in DOMAIN old : old[q] = g[p]) \/ ~IsPet(stored, g[p].of)
  BY <1>1
<1> QED BY <1>1, <1>2 DEF g

-----------------------------------------------------------------------------
(* The steps of the harness                                                 *)
LEMMA HandleHistoryStep == ASSUME C!BoundsFit, ChatInv, C!HandleHistory PROVE ChatInv'
<1> USE DEF ChatInv
<1> DEFINE id == pipe[1].id
           line == C!Answers(id, stored)
<1>1. /\ UNCHANGED C!ui /\ UNCHANGED C!harness
      /\ pipe # << >> /\ Head(pipe).kind = "history" /\ pipe' = Tail(pipe)
      /\ out' = Append(out, C!Answers(Head(pipe).id, stored))
  BY DEF C!HandleHistory, C!Take
<1>2. UNCHANGED <<shown, view, mounts, sends, last, waiting, told, up, deaths, turn, stored>>
  BY <1>1 DEF C!ui, C!harness
<1>3. /\ pipe \in Seq(C!Request) /\ out \in Seq(Line) /\ stored \in Seq(C!Stored)
  BY DEF C!TypeOK, Line
<1>4. IdsOK(pipe, waiting, last, shown, turn) /\ StoredOK(stored, pipe, last, turn)
  BY DEF IdsInv, StoredInv
<1>5. /\ pipe' \in Seq(C!Request) /\ pipe[1] \in C!Request /\ Head(pipe) = pipe[1] /\ id <= last
      /\ \A r \in waiting : r.id = id => r = pipe[1]
      /\ IdsOK(pipe', waiting, last, shown, turn) /\ StoredOK(stored, pipe', last, turn)
  BY <1>1, <1>3, <1>4, Taken
<1>6. id \in C!Ids
  BY <1>5, Requests
<1>7. line \in Line /\ ~IsEvent(line)
  BY <1>3, <1>6, SaidLines
<1>8. out' = Append(out, line)
  BY <1>1, <1>5
<1> HIDE DEF line, id
<1>9. out' \in Seq(Line)
      /\ \A p \in DOMAIN out' : IsEvent(out'[p]) => (\E q \in DOMAIN out : out[q] = out'[p])
                                                    \/ ~IsPet(stored, out'[p].of)
  BY <1>3, <1>7, <1>8, Written
<1>10. C!TypeOK'
  BY <1>2, <1>5, <1>9 DEF C!TypeOK, Line
<1>11. IdsInv' /\ StoredInv'
  BY <1>2, <1>5 DEF IdsInv, StoredInv
<1>12. OutInv'
  <2>1. OutOK(out, stored, waiting, told, last) /\ OnePet(stored)
    BY <1>4 DEF OutInv, StoredOK
  <2>2. \A r \in waiting : \A k \in told[r.win] : IsPet(stored, k)
    <3>1. \A r \in waiting : r.win \in Windows
      BY Requests DEF C!TypeOK
    <3> QED BY <3>1 DEF ToldInv
  <2>3. OutOK(out', stored, waiting, told, last)
    BY <1>3, <1>5, <1>6, <1>8, <2>1, <2>2, OutAnswer DEF line
  <2> QED BY <1>2, <2>3 DEF OutInv
<1>13. ToldInv' /\ ViewInv'
  BY <1>1, <1>2, <1>9, Unseen
<1> QED BY <1>10, <1>11, <1>12, <1>13

LEMMA HandleSendStep == ASSUME C!BoundsFit, ChatInv, C!HandleSend PROVE ChatInv'
<1> USE DEF ChatInv
<1> DEFINE id == pipe[1].id
           error == C!Says("error", id)
           line == C!Answers(id, << >>)
           began == [of |-> id, step |-> "pre", lines |-> 0]
<1>1. /\ UNCHANGED <<C!ui, up, deaths, stored>>
      /\ pipe # << >> /\ Head(pipe).kind = "send" /\ pipe' = Tail(pipe)
      /\ \/ /\ UNCHANGED turn
            /\ out' = out \o <<C!Says("error", Head(pipe).id), C!Answers(Head(pipe).id, << >>)>>
         \/ /\ turn' = [of |-> Head(pipe).id, step |-> "pre", lines |-> 0]
            /\ out' = Append(out, C!Answers(Head(pipe).id, << >>))
  BY DEF C!HandleSend, C!Take
<1>2. UNCHANGED <<shown, view, mounts, sends, last, waiting, told, up, deaths, stored>>
  BY <1>1 DEF C!ui
<1>3. /\ pipe \in Seq(C!Request) /\ out \in Seq(Line) /\ stored \in Seq(C!Stored) /\ turn \in C!Turn
      /\ << >> \in Seq(C!Stored)
  BY DEF C!TypeOK, Line
<1>4. IdsOK(pipe, waiting, last, shown, turn) /\ StoredOK(stored, pipe, last, turn)
  BY DEF IdsInv, StoredInv
<1>5. /\ pipe' \in Seq(C!Request) /\ pipe[1] \in C!Request /\ Head(pipe) = pipe[1] /\ id <= last
      /\ \A r \in waiting : r.id = id => r = pipe[1]
      /\ ~IsPet(stored, id)
      /\ IdsOK(pipe', waiting, last, shown, turn) /\ StoredOK(stored, pipe', last, turn)
      /\ \A i \in DOMAIN pipe' : pipe'[i].id # id
  BY <1>1, <1>3, <1>4, Taken
<1>6. id \in C!Ids
  BY <1>5, Requests
<1>7. line \in Line /\ ~IsEvent(line)
      /\ error \in C!Event /\ error \in Line /\ IsEvent(error) /\ error.of = id /\ error.kind = "error"
  BY <1>3, <1>6, SaidLines
<1>8. began \in C!Turn /\ began.of = id
  BY <1>6, Bounds DEF C!Turn
<1>9. \/ UNCHANGED turn /\ out' = Append(Append(out, error), line)
      \/ turn' = began /\ out' = Append(out, line)
  <2>1. out \o <<error, line>> = Append(Append(out, error), line)
    <3> HIDE DEF error, line
    <3> QED BY <1>3, <1>7, AppendTwo
  <2> QED BY <1>1, <1>5, <2>1
<1>10. \A r \in waiting : r.id = id => r.kind = "send"
  BY <1>1, <1>5
<1> HIDE DEF line, error, id, began
<1>11. out' \in Seq(Line)
       /\ \A p \in DOMAIN out' : IsEvent(out'[p]) => (\E q \in DOMAIN out : out[q] = out'[p])
                                                     \/ ~IsPet(stored, out'[p].of)
  <2>1. CASE turn' = began /\ out' = Append(out, line)
    BY <1>3, <1>7, <2>1, Written
  <2>2. CASE UNCHANGED turn /\ out' = Append(Append(out, error), line)
    <3> DEFINE o == Append(out, error)
    <3>1. o \in Seq(Line)
          /\ \A p \in DOMAIN o : IsEvent(o[p]) => (\E q \in DOMAIN out : out[q] = o[p])
                                                  \/ ~IsPet(stored, o[p].of)
      BY <1>3, <1>5, <1>7, Written
    <3>2. out' = Append(o, line)
      BY <2>2
    <3> HIDE DEF o
    <3> QED BY <1>7, <3>1, <3>2, Written
  <2> QED BY <1>9, <2>1, <2>2
<1>12. turn' \in C!Turn /\ IdsOK(pipe', waiting, last, shown, turn') /\ StoredOK(stored, pipe', last, turn')
  <2>1. CASE turn' = began
    <3>1. IdsOK(pipe', waiting, last, shown, began) /\ StoredOK(stored, pipe', last, began)
      BY <1>3, <1>5, <1>8, TurnMayBecome
    <3> QED BY <1>8, <2>1, <3>1
  <2> QED BY <1>3, <1>5, <1>9, <2>1
<1>13. C!TypeOK'
  BY <1>2, <1>5, <1>11, <1>12 DEF C!TypeOK, Line
<1>14. IdsInv' /\ StoredInv'
  BY <1>2, <1>12 DEF IdsInv, StoredInv
<1>15. OutInv'
  <2>1. OutOK(out, stored, waiting, told, last) /\ OnePet(stored)
    BY <1>4 DEF OutInv, StoredOK
  <2>2. ASSUME NEW o \in Seq(Line), OutOK(o, stored, waiting, told, last)
        PROVE  OutOK(Append(o, line), stored, waiting, told, last)
    BY <1>3, <1>5, <1>6, <1>10, <2>1, <2>2, OutAnswer DEF line
  <2>3. OutOK(Append(out, error), stored, waiting, told, last) /\ Append(out, error) \in Seq(Line)
    <3>1. Append(out, error) \in Seq(Line)
      BY <1>3, <1>7, AppendOf
    <3> QED BY <1>3, <1>5, <1>7, <2>1, <3>1, OutEvent
  <2>4. OutOK(out', stored, waiting, told, last)
    BY <1>3, <1>9, <2>1, <2>2, <2>3
  <2> QED BY <1>2, <2>4 DEF OutInv
<1>16. ToldInv' /\ ViewInv'
  BY <1>1, <1>2, <1>11, Unseen
<1> QED BY <1>13, <1>14, <1>15, <1>16

\* A line of the turn under way; a reply is stored as its last line is written.
LEMMA Spoken ==
  ASSUME C!BoundsFit, ChatInv, UNCHANGED <<C!ui, up, deaths, pipe>>, turn # C!NoTurn,
         NEW kind \in {"progress", "done", "error"}, out' = Append(out, C!Says(kind, turn.of)),
         turn' = C!NoTurn \/ (turn' \in C!Turn /\ turn'.of = turn.of),
         IF kind = "done" THEN stored' = Append(stored, [role |-> "pet", of |-> turn.of]) /\ turn' = C!NoTurn
                          ELSE stored' = stored
  PROVE  ChatInv'
<1> USE DEF ChatInv
<1> DEFINE id == turn.of
           line == C!Says(kind, id)
           pet == [role |-> "pet", of |-> id]
<1>1. UNCHANGED <<shown, view, mounts, sends, last, waiting, told, up, deaths, pipe>>
  BY DEF C!ui
<1>2. /\ pipe \in Seq(C!Request) /\ out \in Seq(Line) /\ stored \in Seq(C!Stored) /\ turn \in C!Turn
      /\ turn' \in C!Turn
  BY DEF C!TypeOK, Line, C!Turn
<1>3. IdsOK(pipe, waiting, last, shown, turn) /\ StoredOK(stored, pipe, last, turn)
  BY DEF IdsInv, StoredInv
<1>4. id \in C!Ids
  BY <1>2, Turns
<1>5. ~IsPet(stored, id) /\ id <= last /\ \A i \in DOMAIN pipe : pipe[i].id # id
  BY <1>3, <1>4 DEF StoredOK, IdsOK
<1>6. line \in C!Event /\ line \in Line /\ line.of = id /\ line.kind = kind
  BY <1>4 DEF C!Says, C!Event, Line
<1>7. /\ stored' \in Seq(C!Stored) /\ OnePet(stored')
      /\ \A k : IsPet(stored', k) <=> IsPet(stored, k) \/ (kind = "done" /\ k = id)
  <2>1. CASE kind = "done"
    <3>1. pet \in C!Stored /\ pet.role = "pet" /\ pet.of = id /\ stored' = Append(stored, pet)
      BY <1>4, <2>1 DEF C!Stored
    <3> HIDE DEF pet, id
    <3> QED BY <1>2, <1>3, <1>5, <2>1, <3>1, Kept DEF StoredOK
  <2>2. CASE kind # "done"
    BY <1>2, <1>3, <2>2 DEF StoredOK
  <2> QED BY <2>1, <2>2
<1>8. out' = Append(out, line)
  OBVIOUS
<1>9. kind = "done" => turn' = C!NoTurn
  OBVIOUS
<1>10. turn' = C!NoTurn \/ turn'.of = id
  OBVIOUS
<1> HIDE DEF line, id, pet
<1>11. out' \in Seq(Line)
       /\ \A p \in DOMAIN out' : IsEvent(out'[p]) => (\E q \in DOMAIN out : out[q] = out'[p])
                                                     \/ ~IsPet(stored, out'[p].of)
  BY <1>2, <1>5, <1>6, <1>8, Written
<1>12. IdsOK(pipe, waiting, last, shown, turn') /\ StoredOK(stored, pipe, last, turn')
  <2>1. turn' \in C!Turn /\ turn \in C!Turn /\ (turn' = C!NoTurn \/ (turn'.of = turn.of /\ turn # C!NoTurn))
    BY <1>2, <1>10 DEF id
  <2> QED BY <1>3, <2>1, TurnMayBecome
<1>13. StoredOK(stored', pipe, last, turn')
  <2>1. kind = "done" => turn'.of = 0 /\ id # 0
    BY <1>2, <1>4, <1>9, Turns, Identifiers
  <2> QED BY <1>5, <1>7, <1>12, <2>1 DEF StoredOK
<1>14. C!TypeOK'
  BY <1>1, <1>2, <1>7, <1>11 DEF C!TypeOK, Line
<1>15. IdsInv' /\ StoredInv'
  BY <1>1, <1>12, <1>13 DEF IdsInv, StoredInv
<1>16. OutInv'
  <2>1. OutOK(out, stored, waiting, told, last)
    BY DEF OutInv
  <2>2. OutOK(out', stored', waiting, told, last)
    BY <1>2, <1>5, <1>6, <1>7, <1>8, <2>1, OutEvent
  <2> QED BY <1>1, <2>2 DEF OutInv
<1>17. ToldInv' /\ ViewInv'
  BY <1>7, <1>11, Unseen
<1> QED BY <1>14, <1>15, <1>16, <1>17

LEMMA FailsStep ==
  ASSUME C!BoundsFit, ChatInv, NEW step \in {"pre", "stream"}, C!Fails(step)
  PROVE  ChatInv'
<1>1. turn # C!NoTurn
  BY DEF C!Fails, C!NoTurn
<1>2. /\ UNCHANGED <<C!ui, up, deaths, pipe>> /\ turn' = C!NoTurn /\ stored' = stored
      /\ out' = Append(out, C!Says("error", turn.of))
  BY DEF C!Fails
<1> QED BY <1>1, <1>2, Spoken

LEMMA StreamStep == ASSUME C!BoundsFit, ChatInv, C!Stream PROVE ChatInv'
<1>1. turn # C!NoTurn /\ turn \in C!Turn
  BY DEF C!Stream, C!NoTurn, ChatInv, C!TypeOK
<1>2. /\ UNCHANGED <<C!ui, up, deaths, pipe>> /\ stored' = stored
      /\ out' = Append(out, C!Says("progress", turn.of))
      /\ turn' = [turn EXCEPT !.lines = @ + 1] /\ turn.lines < MaxLines
  BY DEF C!Stream
<1>3. turn' \in C!Turn /\ turn'.of = turn.of
  <2>1. turn \in [of : C!Ids, step : {"pre", "stream"}, lines : 0..MaxLines]
    BY <1>1 DEF C!Turn
  <2>2. turn.lines + 1 \in 0..MaxLines
    BY <1>2, <2>1, Bounds
  <2>3. turn' \in [of : C!Ids, step : {"pre", "stream"}, lines : 0..MaxLines] /\ turn'.of = turn.of
    BY <1>2, <2>1, <2>2
  <2> QED BY <2>3 DEF C!Turn
<1> QED BY <1>1, <1>2, <1>3, Spoken

LEMMA TurnDoneStep == ASSUME C!BoundsFit, ChatInv, C!TurnDone PROVE ChatInv'
<1>1. turn # C!NoTurn
  BY DEF C!TurnDone, C!NoTurn
<1>2. /\ UNCHANGED <<C!ui, up, deaths, pipe>> /\ turn' = C!NoTurn
      /\ stored' = Append(stored, [role |-> "pet", of |-> turn.of])
      /\ out' = Append(out, C!Says("done", turn.of))
  BY DEF C!TurnDone
<1> QED BY <1>1, <1>2, Spoken

LEMMA PreTurnStep == ASSUME C!BoundsFit, ChatInv, C!PreTurn PROVE ChatInv'
<1> USE DEF ChatInv
<1> DEFINE id == turn.of
           user == [role |-> "user", of |-> id]
<1>1. UNCHANGED <<shown, view, mounts, sends, last, waiting, told, up, deaths, pipe, out>>
      /\ turn # C!NoTurn /\ turn.step = "pre" /\ turn' = [turn EXCEPT !.step = "stream"]
      /\ stored' = Append(stored, user)
  BY DEF C!PreTurn, C!ui, C!NoTurn
<1>2. /\ pipe \in Seq(C!Request) /\ out \in Seq(Line) /\ stored \in Seq(C!Stored) /\ turn \in C!Turn
  BY DEF C!TypeOK, Line
<1>3. turn' \in C!Turn /\ turn'.of = id /\ id \in C!Ids
  <2>1. turn \in [of : C!Ids, step : {"pre", "stream"}, lines : 0..MaxLines]
    BY <1>1, <1>2 DEF C!Turn
  <2>2. turn' \in [of : C!Ids, step : {"pre", "stream"}, lines : 0..MaxLines] /\ turn'.of = turn.of
    BY <1>1, <2>1
  <2> QED BY <2>1, <2>2 DEF C!Turn
<1>4. user \in C!Stored /\ user.role = "user"
  BY <1>3 DEF C!Stored
<1>5. IdsOK(pipe, waiting, last, shown, turn) /\ StoredOK(stored, pipe, last, turn)
  BY DEF IdsInv, StoredInv
<1> HIDE DEF id, user
<1>6. /\ stored' \in Seq(C!Stored) /\ OnePet(stored')
      /\ \A k : IsPet(stored', k) <=> IsPet(stored, k)
  BY <1>1, <1>2, <1>4, <1>5, Kept DEF StoredOK
<1>7. IdsOK(pipe, waiting, last, shown, turn') /\ StoredOK(stored, pipe, last, turn')
  <2>1. turn' \in C!Turn /\ turn \in C!Turn /\ turn'.of = turn.of /\ turn # C!NoTurn
    BY <1>1, <1>2, <1>3 DEF id
  <2> QED BY <1>5, <2>1, TurnMayBecome
<1>8. C!TypeOK'
  BY <1>1, <1>3, <1>6 DEF C!TypeOK
<1>9. IdsInv' /\ StoredInv'
  BY <1>1, <1>6, <1>7 DEF IdsInv, StoredInv, StoredOK
<1>10. OutInv'
  <2>1. OutOK(out, stored', waiting, told, last)
    BY <1>6 DEF OutInv, OutOK
  <2> QED BY <1>1, <2>1 DEF OutInv
<1>11. ToldInv' /\ ViewInv'
  BY <1>1, <1>6, Unseen DEF C!ui
<1> QED BY <1>8, <1>9, <1>10, <1>11

-----------------------------------------------------------------------------
(* The death of the harness, and its start                                  *)
LEMMA DieStep == ASSUME C!BoundsFit, ChatInv, C!Die PROVE ChatInv'
<1> USE DEF ChatInv
<1>1. UNCHANGED <<shown, view, mounts, sends, last, waiting, told, stored, out>>
      /\ up' = FALSE /\ deaths' = deaths + 1 /\ deaths < MaxDeaths /\ turn' = C!NoTurn /\ pipe' = << >>
  BY DEF C!Die, C!ui
<1>2. << >> \in Seq(C!Request) /\ DOMAIN << >> = {}
  OBVIOUS
<1>3. C!TypeOK'
  <2>1. deaths' \in 0..MaxDeaths /\ turn' \in C!Turn
    BY <1>1, Bounds DEF C!TypeOK, C!Turn
  <2> QED BY <1>1, <1>2, <2>1 DEF C!TypeOK
<1>4. IdsInv'
  BY <1>1, <1>2 DEF IdsInv, IdsOK
<1>5. StoredInv'
  <2>1. C!NoTurn.of = 0 /\ \A id \in C!Ids : id # 0
    BY Identifiers DEF C!NoTurn
  <2> QED BY <1>1, <1>2, <2>1 DEF StoredInv, StoredOK
<1>6. OutInv'
  BY <1>1 DEF OutInv
<1>7. ToldInv' /\ ViewInv'
  BY <1>1, Unseen DEF C!ui
<1> QED BY <1>3, <1>4, <1>5, <1>6, <1>7

LEMMA RelaunchStep == ASSUME C!BoundsFit, ChatInv, C!Relaunch \/ UNCHANGED C!vars PROVE ChatInv'
<1> USE DEF ChatInv
<1>1. UNCHANGED <<C!ui, deaths, turn, stored, pipe, out>> /\ up' \in BOOLEAN
  BY DEF C!Relaunch, C!vars, C!harness, C!TypeOK
<1>2. UNCHANGED <<shown, view, mounts, sends, last, waiting, told>>
  BY <1>1 DEF C!ui
<1>3. C!TypeOK'
  BY <1>1, <1>2 DEF C!TypeOK
<1>4. IdsInv' /\ StoredInv' /\ OutInv'
  BY <1>1, <1>2 DEF IdsInv, StoredInv, OutInv
<1>5. ToldInv' /\ ViewInv'
  BY <1>1, Unseen
<1> QED BY <1>3, <1>4, <1>5

-----------------------------------------------------------------------------
(* The steps of a window                                                    *)

\* A window's list as it was, while requests of others come and go.
LEMMA SameWindow ==
  ASSUME NEW w, NEW v \in Seq(C!Bubble), NEW td, NEW pd, NEW l \in Nat, Window(w, v, td, pd, l),
         C!BoundsFit, NEW m \in Nat, l <= m, NEW others,
         \A r \in pd : r.win = w /\ r.kind = "send" => r \in others
  PROVE  Window(w, v, td, others, m)
<1>1. \A i \in DOMAIN v : v[i].of \in Nat
  <2>1. \A b \in C!Bubble : b.of \in Nat
    BY Identifiers DEF C!Bubble
  <2> QED BY <2>1, ElementOf
<1>2. \A id : C!SendRequest(w, id).win = w /\ C!SendRequest(w, id).kind = "send"
  BY DEF C!SendRequest
<1>3. WaitsFor(v, w, others)
  BY <1>2 DEF Window, WaitsFor
<1> QED BY <1>1, <1>3 DEF Window

\* No line is read or written: what the lines say stays.
LEMMA Unread ==
  ASSUME C!BoundsFit, ChatInv, UNCHANGED <<stored, out>>, last' \in Nat, last <= last',
         \A r \in waiting' : r \in waiting \/ r.id > last,
         \A w \in Windows : told'[w] \subseteq told[w],
         waiting' \subseteq C!Request
  PROVE  OutInv' /\ ToldInv'
<1> USE DEF ChatInv
<1>1. \A p \in DOMAIN out : out[p].of \in Nat
  <2>1. out \in Seq(Line)
    BY DEF C!TypeOK, Line
  <2>2. \A line \in Line : line.of \in Nat
    BY Lines, Identifiers
  <2> QED BY <2>1, <2>2, ElementOf
<1>2. OutInv'
  <2> DEFINE others == waiting'
  <2>1. OutOK(out, stored, waiting, told, last) /\ last \in Nat
    BY Bounds DEF OutInv, C!TypeOK
  <2>2. OutOK(out, stored, others, told', last')
    <3>1. \A r \in others : r.win \in Windows
      BY Requests
    <3> HIDE DEF others
    <3>2. \A p \in DOMAIN out : out[p].of <= last /\ out[p].of <= last'
      BY <1>1, <2>1 DEF OutOK
    <3>3. \A p \in DOMAIN out, r \in others : r.id = out[p].of => r \in waiting
      BY <1>1, <2>1, <3>2 DEF others
    <3> QED BY <2>1, <3>1, <3>2, <3>3 DEF OutOK
  <2> QED BY <2>2 DEF OutInv
<1>3. ToldInv'
  BY DEF ToldInv, Said
<1> QED BY <1>2, <1>3

LEMMA Delivered ==
  ASSUME C!TypeOK, NEW r \in C!Request, NEW x \in C!Request
  PROVE  /\ C!Deliver(<<r>>) => pipe' = pipe \/ pipe' = Append(pipe, r)
         /\ C!Deliver(<<r, x>>) => pipe' = pipe \/ pipe' = Append(Append(pipe, r), x)
<1>1. pipe \in Seq(C!Request)
  BY DEF C!TypeOK
<1>2. pipe \o <<r>> = Append(pipe, r) /\ pipe \o <<r, x>> = Append(Append(pipe, r), x)
  BY <1>1, AppendTwo
<1> QED BY <1>2 DEF C!Deliver

\* What was sent stands at the end of the list with a placeholder that waits.
LEMMA SentWindow ==
  ASSUME C!BoundsFit, NEW w, NEW v \in Seq(C!Bubble), NEW td, NEW pd, NEW l \in Nat, Window(w, v, td, pd, l),
         NEW id \in C!Ids, l < id, Past(v, stored, out), \A k \in C!Ids : IsPet(stored, k) => k <= l
  PROVE  /\ v \o C!Sent(id) \in Seq(C!Bubble) /\ Past(v \o C!Sent(id), stored, out)
         /\ Window(w, v \o C!Sent(id), td, pd \cup {C!SendRequest(w, id)}, id)
<1> DEFINE g == v \o C!Sent(id)
<1>1. \A i \in DOMAIN v : v[i].of \in C!Ids /\ v[i].of \in Nat
  <2>1. \A b \in C!Bubble : b.of \in C!Ids /\ b.of \in Nat
    BY Identifiers DEF C!Bubble
  <2> QED BY <2>1, ElementOf
<1>2. id \in Nat
  BY Identifiers
<1>3. \A i \in DOMAIN v : v[i].kind \in {"wait", "histPet"} => v[i].of <= l /\ v[i].of # id
  BY <1>1, <1>2 DEF Window, Past
<1>4. Apart(v) /\ Shows(v, td) /\ WaitsFor(v, w, pd)
  BY DEF Window
<1>5. /\ g \in Seq(C!Bubble) /\ Apart(g) /\ Shows(g, td)
      /\ \A i \in DOMAIN g : \/ i \in DOMAIN v /\ g[i] = v[i]
                             \/ g[i].kind = "user"
                             \/ g[i] = C!Placeholder(id)
  BY <1>3, <1>4, SentView
<1>6. C!Placeholder(id).kind = "wait" /\ C!Placeholder(id).of = id
  BY DEF C!Placeholder
<1> HIDE DEF g
<1>7. WaitsFor(g, w, pd \cup {C!SendRequest(w, id)})
  BY <1>4, <1>5, <1>6 DEF WaitsFor
<1>8. \A i \in DOMAIN g : g[i].kind = "wait" => g[i].of <= id
  BY <1>1, <1>2, <1>3, <1>5, <1>6
<1>9. Past(g, stored, out)
  BY <1>5, <1>6 DEF Past
<1> QED BY <1>5, <1>7, <1>8, <1>9 DEF Window, g

LEMMA MountStep ==
  ASSUME C!BoundsFit, ChatInv, NEW w \in Windows, C!Mount(w)
  PROVE  ChatInv'
<1> USE DEF ChatInv
<1> DEFINE r == C!HistoryRequest(w)
<1>1. /\ mounts < MaxMounts /\ w \notin shown /\ shown' = shown \cup {w}
      /\ mounts' = mounts + 1 /\ last' = last + 1 /\ waiting' = waiting \cup {r}
      /\ C!Deliver(<<r>>)
      /\ UNCHANGED <<view, told, sends, up, deaths, turn, stored, out>>
  BY DEF C!Mount, C!harness
<1>2. /\ pipe \in Seq(C!Request) /\ waiting \subseteq C!Request /\ turn \in C!Turn
      /\ last \in Nat /\ last = sends + mounts /\ sends \in 0..MaxSends /\ mounts \in 0..MaxMounts
  BY Bounds DEF C!TypeOK, IdsInv
<1>3. r \in C!Request /\ r.id = last + 1 /\ r.win = w /\ last + 1 <= MaxSends + MaxMounts
  <2>1. last + 1 <= MaxSends + MaxMounts
    BY <1>1, <1>2, Bounds
  <2> QED BY <1>2, <2>1, NewRequests DEF C!HistoryRequest
<1> HIDE DEF r
<1>4. pipe' = pipe \/ pipe' = Append(pipe, r)
  BY <1>1, <1>3, Delivered
<1>5. /\ pipe' \in Seq(C!Request) /\ IdsOK(pipe', waiting', last', shown', turn)
      /\ StoredOK(stored, pipe', last', turn)
  <2>1. IdsOK(pipe, waiting, last, shown, turn) /\ StoredOK(stored, pipe, last, turn)
    BY DEF IdsInv, StoredInv
  <2>2. shown \subseteq shown' /\ r.win \in shown'
    BY <1>1, <1>3
  <2>3. /\ pipe' \in Seq(C!Request) /\ IdsOK(pipe', waiting \cup {r}, r.id, shown', turn)
        /\ StoredOK(stored, pipe', r.id, turn)
    <3>1. waiting \in SUBSET C!Request /\ pipe \in Seq(C!Request) /\ last \in Nat /\ turn \in C!Turn
          /\ r \in C!Request /\ r.id = last + 1
      BY <1>2, <1>3
    <3>2. pipe' \in Seq(C!Request)
      BY <1>4, <3>1, Queued
    <3>3. IdsOK(pipe', waiting \cup {r}, r.id, shown', turn)
      BY <1>4, <2>1, <2>2, <3>1, Asked
    <3>4. StoredOK(stored, pipe', r.id, turn)
      BY <1>4, <2>1, <3>1, AskedStored
    <3> QED BY <3>2, <3>3, <3>4
  <2> QED BY <1>1, <1>3, <2>3
<1>6. C!TypeOK'
  <2>1. last' \in 0..(MaxSends + MaxMounts) /\ mounts' \in 0..MaxMounts
    BY <1>1, <1>2, Bounds
  <2>2. waiting' \subseteq C!Request /\ shown' \subseteq Windows
    BY <1>1, <1>2, <1>3 DEF C!TypeOK
  <2> QED BY <1>1, <1>5, <2>1, <2>2 DEF C!TypeOK
<1>7. IdsInv' /\ StoredInv'
  BY <1>1, <1>2, <1>5 DEF IdsInv, StoredInv
<1>8. OutInv' /\ ToldInv'
  <2>1. /\ \A x \in waiting' : x \in waiting \/ x.id > last
        /\ \A x \in Windows : told'[x] \subseteq told[x]
        /\ waiting' \subseteq C!Request /\ last' \in Nat /\ last <= last'
    BY <1>1, <1>2, <1>3
  <2> QED BY <1>1, <2>1, Unread
<1>9. ViewInv'
  <2> SUFFICES ASSUME NEW x \in Windows
               PROVE  /\ x \notin shown' => view'[x] = << >> /\ told'[x] = {}
                      /\ Window(x, view'[x], told'[x], waiting', last') /\ Past(view'[x], stored', out')
    BY <1>1 DEF ViewInv, Past
  <2>1. view[x] \in Seq(C!Bubble) /\ Window(x, view[x], told[x], waiting, last) /\ Past(view[x], stored, out)
        /\ (x \notin shown => view[x] = << >> /\ told[x] = {})
    BY DEF ViewInv, C!TypeOK
  <2>2. Window(x, view[x], told[x], waiting', last')
    <3>1. last' \in Nat /\ last <= last' /\ \A y \in waiting : y \in waiting'
      BY <1>1, <1>2
    <3> QED BY <1>1, <1>2, <2>1, <3>1, SameWindow
  <2>3. Past(view'[x], stored', out')
    BY <1>1, <2>1 DEF Past, Said
  <2> QED BY <1>1, <2>1, <2>2, <2>3
<1> QED BY <1>6, <1>7, <1>8, <1>9

LEMMA SendStep ==
  ASSUME C!BoundsFit, ChatInv, NEW w \in Windows, C!Send(w)
  PROVE  ChatInv'
<1> USE DEF ChatInv
<1> DEFINE r == C!SendRequest(w, last + 1)
           g == view[w] \o C!Sent(last + 1)
<1>1. /\ sends < MaxSends /\ w \in shown /\ view' = [view EXCEPT ![w] = g]
      /\ sends' = sends + 1 /\ last' = last + 1 /\ waiting' = waiting \cup {r}
      /\ C!Deliver(<<r>>)
      /\ UNCHANGED <<shown, mounts, told, up, deaths, turn, stored, out>>
  BY DEF C!Send, C!harness
<1>2. /\ pipe \in Seq(C!Request) /\ waiting \subseteq C!Request /\ turn \in C!Turn
      /\ last \in Nat /\ last = sends + mounts /\ sends \in 0..MaxSends /\ mounts \in 0..MaxMounts
      /\ view \in [Windows -> Seq(C!Bubble)]
  BY Bounds DEF C!TypeOK, IdsInv
<1>3. r \in C!Request /\ r.id = last + 1 /\ r.win = w /\ last + 1 \in C!Ids
  <2>1. last + 1 <= MaxSends + MaxMounts
    BY <1>1, <1>2, Bounds
  <2> QED BY <1>2, <2>1, NewRequests DEF C!SendRequest
<1> HIDE DEF r, g
<1>4. pipe' = pipe \/ pipe' = Append(pipe, r)
  BY <1>1, <1>3, Delivered
<1>5. IdsOK(pipe, waiting, last, shown, turn) /\ StoredOK(stored, pipe, last, turn)
  BY DEF IdsInv, StoredInv
<1>6. /\ pipe' \in Seq(C!Request) /\ IdsOK(pipe', waiting', last', shown', turn)
      /\ StoredOK(stored, pipe', last', turn)
  <2>1. waiting \in SUBSET C!Request /\ pipe \in Seq(C!Request) /\ last \in Nat /\ turn \in C!Turn
        /\ r \in C!Request /\ r.id = last + 1 /\ shown \subseteq shown' /\ r.win \in shown'
    BY <1>1, <1>2, <1>3
  <2>2. pipe' \in Seq(C!Request)
    BY <1>4, <2>1, Queued
  <2>3. IdsOK(pipe', waiting \cup {r}, r.id, shown', turn)
    BY <1>4, <1>5, <2>1, Asked
  <2>4. StoredOK(stored, pipe', r.id, turn)
    BY <1>4, <1>5, <2>1, AskedStored
  <2> QED BY <1>1, <1>3, <2>2, <2>3, <2>4
<1>7. /\ g \in Seq(C!Bubble) /\ Past(g, stored, out) /\ Window(w, g, told[w], waiting \cup {r}, last + 1)
  <2>1. /\ view[w] \in Seq(C!Bubble) /\ Window(w, view[w], told[w], waiting, last) /\ Past(view[w], stored, out)
        /\ \A k \in C!Ids : IsPet(stored, k) => k <= last
    BY <1>2, <1>5 DEF ViewInv, StoredOK
  <2>2. last \in Nat /\ last + 1 \in C!Ids /\ last < last + 1
    BY <1>2, <1>3
  <2> QED BY <2>1, <2>2, SentWindow DEF g, r
<1>8. C!TypeOK'
  <2>1. view' \in [Windows -> Seq(C!Bubble)]
    BY <1>1, <1>2, <1>7
  <2>2. last' \in 0..(MaxSends + MaxMounts) /\ sends' \in 0..MaxSends
    BY <1>1, <1>2, Bounds
  <2>3. waiting' \subseteq C!Request
    BY <1>1, <1>2, <1>3
  <2> QED BY <1>1, <1>6, <2>1, <2>2, <2>3 DEF C!TypeOK
<1>9. IdsInv' /\ StoredInv'
  BY <1>1, <1>2, <1>6 DEF IdsInv, StoredInv
<1>10. OutInv' /\ ToldInv'
  <2>1. /\ \A x \in waiting' : x \in waiting \/ x.id > last
        /\ \A x \in Windows : told'[x] \subseteq told[x]
        /\ waiting' \subseteq C!Request /\ last' \in Nat /\ last <= last'
    BY <1>1, <1>2, <1>3
  <2> QED BY <1>1, <2>1, Unread
<1>11. ViewInv'
  <2> SUFFICES ASSUME NEW x \in Windows
               PROVE  /\ x \notin shown' => view'[x] = << >> /\ told'[x] = {}
                      /\ Window(x, view'[x], told'[x], waiting', last') /\ Past(view'[x], stored', out')
    BY DEF ViewInv, Past
  <2>1. view[x] \in Seq(C!Bubble) /\ Window(x, view[x], told[x], waiting, last) /\ Past(view[x], stored, out)
        /\ (x \notin shown => view[x] = << >> /\ told[x] = {})
    BY DEF ViewInv, C!TypeOK
  <2>2. CASE x = w
    <3>1. view'[x] = g
      BY <1>1, <1>2, <2>2
    <3>2. Past(view'[x], stored', out')
      BY <1>1, <1>7, <3>1 DEF Past, Said
    <3> QED BY <1>1, <1>7, <2>2, <3>1, <3>2
  <2>3. CASE x # w
    <3>1. view'[x] = view[x]
      BY <1>1, <1>2, <2>3
    <3>2. Window(x, view[x], told[x], waiting', last')
      BY <1>1, <1>2, <2>1, SameWindow
    <3>3. Past(view'[x], stored', out')
      BY <1>1, <2>1, <3>1 DEF Past, Said
    <3> QED BY <1>1, <2>1, <3>1, <3>2, <3>3
  <2> QED BY <2>2, <2>3
<1> QED BY <1>8, <1>9, <1>10, <1>11

LEMMA MountWithSeedStep == ASSUME C!BoundsFit, ChatInv, C!MountWithSeed PROVE ChatInv'
<1> USE DEF ChatInv
<1> DEFINE w == SeedWindow
           h == C!HistoryRequest(w)
           r == C!SendRequest(w, last + 2)
           g == C!Sent(last + 2)
           middle == IF up THEN Append(pipe, h) ELSE pipe
<1>1. /\ mounts < MaxMounts /\ sends < MaxSends /\ w \notin shown
      /\ shown' = shown \cup {w} /\ view' = [view EXCEPT ![w] = g]
      /\ mounts' = mounts + 1 /\ sends' = sends + 1 /\ last' = last + 2
      /\ waiting' = waiting \cup {h, r}
      /\ C!Deliver(<<h, r>>)
      /\ UNCHANGED <<told, up, deaths, turn, stored, out>>
  BY DEF C!MountWithSeed, C!harness
<1>2. /\ pipe \in Seq(C!Request) /\ waiting \subseteq C!Request /\ turn \in C!Turn
      /\ last \in Nat /\ last = sends + mounts /\ sends \in 0..MaxSends /\ mounts \in 0..MaxMounts
      /\ view \in [Windows -> Seq(C!Bubble)] /\ w \in Windows
  BY Bounds DEF C!TypeOK, IdsInv
<1>3. /\ h \in C!Request /\ h.id = last + 1 /\ h.win = w
      /\ r \in C!Request /\ r.id = last + 2 /\ r.win = w /\ last + 2 \in C!Ids
  <2>1. last + 1 <= MaxSends + MaxMounts /\ last + 2 <= MaxSends + MaxMounts
    BY <1>1, <1>2, Bounds
  <2>2. last + 1 \in Nat /\ last + 2 = (last + 1) + 1
    BY <1>2
  <2>3. h \in C!Request /\ h.id = last + 1 /\ h.win = w
    BY <1>2, <2>1, NewRequests DEF C!HistoryRequest
  <2>4. last + 2 \in C!Ids
    BY <1>2, <2>1, Bounds DEF C!Ids
  <2>5. r \in C!Request /\ r.id = last + 2 /\ r.win = w
    BY <1>2, <2>4 DEF C!SendRequest, C!Request
  <2> QED BY <2>3, <2>4, <2>5
<1> HIDE DEF h, r, g, w
<1>4. \/ pipe' = middle /\ middle = pipe
      \/ pipe' = Append(middle, r) /\ middle = Append(pipe, h)
  <2>1. pipe \o <<h, r>> = Append(Append(pipe, h), r)
    BY <1>2, <1>3, AppendTwo
  <2> QED BY <1>1, <2>1 DEF C!Deliver
<1> HIDE DEF middle
<1>5. IdsOK(pipe, waiting, last, shown, turn) /\ StoredOK(stored, pipe, last, turn)
  BY DEF IdsInv, StoredInv
<1>6. /\ middle \in Seq(C!Request) /\ IdsOK(middle, waiting \cup {h}, h.id, shown', turn)
      /\ StoredOK(stored, middle, h.id, turn)
  <2>1. waiting \in SUBSET C!Request /\ pipe \in Seq(C!Request) /\ last \in Nat /\ turn \in C!Turn
        /\ h \in C!Request /\ h.id = last + 1 /\ shown \subseteq shown' /\ h.win \in shown'
        /\ (middle = pipe \/ middle = Append(pipe, h))
    BY <1>1, <1>2, <1>3, <1>4
  <2>2. middle \in Seq(C!Request)
    BY <2>1, Queued
  <2>3. IdsOK(middle, waiting \cup {h}, h.id, shown', turn)
    BY <1>5, <2>1, Asked
  <2>4. StoredOK(stored, middle, h.id, turn)
    BY <1>5, <2>1, AskedStored
  <2> QED BY <2>2, <2>3, <2>4
<1>7. /\ pipe' \in Seq(C!Request) /\ IdsOK(pipe', waiting', last', shown', turn)
      /\ StoredOK(stored, pipe', last', turn)
  <2> DEFINE asked == waiting \cup {h}
  <2>1. asked \in SUBSET C!Request /\ middle \in Seq(C!Request) /\ h.id \in Nat /\ turn \in C!Turn
        /\ r \in C!Request /\ r.id = h.id + 1 /\ shown' \subseteq shown' /\ r.win \in shown'
        /\ (pipe' = middle \/ pipe' = Append(middle, r))
    BY <1>1, <1>2, <1>3, <1>4, <1>6
  <2>2. waiting' = asked \cup {r} /\ last' = r.id
    BY <1>1, <1>3
  <2>3. IdsOK(middle, asked, h.id, shown', turn)
    BY <1>6
  <2> HIDE DEF asked
  <2>4. pipe' \in Seq(C!Request)
    BY <2>1, Queued
  <2>5. IdsOK(pipe', asked \cup {r}, r.id, shown', turn)
    BY <2>1, <2>3, Asked
  <2>6. StoredOK(stored, pipe', r.id, turn)
    BY <1>6, <2>1, AskedStored
  <2> QED BY <2>2, <2>4, <2>5, <2>6
<1>8. /\ g \in Seq(C!Bubble) /\ Past(g, stored, out) /\ Window(w, g, told[w], waiting', last + 2)
  <2>1. /\ view[w] = << >> /\ << >> \in Seq(C!Bubble)
        /\ Window(w, << >>, told[w], waiting, last) /\ Past(<< >>, stored, out)
        /\ \A k \in C!Ids : IsPet(stored, k) => k <= last
    BY <1>1, <1>2, <1>5 DEF ViewInv, StoredOK, w
  <2>2. last \in Nat /\ last + 2 \in C!Ids /\ last < last + 2
    BY <1>2, <1>3
  <2>3. << >> \o g = g /\ g = C!Sent(last + 2)
    BY DEF C!Sent, g
  <2>4. Window(w, << >>, told[w], waiting \cup {h}, last)
    BY <2>1 DEF Window, WaitsFor
  <2>5. /\ g \in Seq(C!Bubble) /\ Past(g, stored, out)
        /\ Window(w, g, told[w], (waiting \cup {h}) \cup {C!SendRequest(w, last + 2)}, last + 2)
    <3> DEFINE e == << >>  asked == waiting \cup {h}
    <3>1. e \in Seq(C!Bubble) /\ Window(w, e, told[w], asked, last) /\ Past(e, stored, out)
      BY <2>1, <2>4
    <3>2. e \o C!Sent(last + 2) = g
      BY <2>3
    <3> HIDE DEF e, asked
    <3>3. /\ e \o C!Sent(last + 2) \in Seq(C!Bubble) /\ Past(e \o C!Sent(last + 2), stored, out)
          /\ Window(w, e \o C!Sent(last + 2), told[w], asked \cup {C!SendRequest(w, last + 2)}, last + 2)
      BY <1>2, <2>1, <2>2, <3>1, SentWindow
    <3> QED BY <3>2, <3>3 DEF asked
  <2>6. waiting' = (waiting \cup {h}) \cup {C!SendRequest(w, last + 2)}
    BY <1>1 DEF r
  <2> QED BY <2>5, <2>6
<1>9. C!TypeOK'
  <2>1. view' \in [Windows -> Seq(C!Bubble)]
    BY <1>1, <1>2, <1>8
  <2>2. last' \in 0..(MaxSends + MaxMounts) /\ sends' \in 0..MaxSends /\ mounts' \in 0..MaxMounts
    BY <1>1, <1>2, Bounds
  <2>3. waiting' \subseteq C!Request /\ shown' \subseteq Windows
    BY <1>1, <1>2, <1>3 DEF C!TypeOK
  <2> QED BY <1>1, <1>7, <2>1, <2>2, <2>3 DEF C!TypeOK
<1>10. IdsInv' /\ StoredInv'
  <2>1. last' = sends' + mounts'
    BY <1>1, <1>2
  <2> QED BY <1>1, <1>7, <2>1 DEF IdsInv, StoredInv
<1>11. OutInv' /\ ToldInv'
  <2>1. /\ \A x \in waiting' : x \in waiting \/ x.id > last
        /\ \A x \in Windows : told'[x] \subseteq told[x]
        /\ waiting' \subseteq C!Request /\ last' \in Nat /\ last <= last'
    BY <1>1, <1>2, <1>3
  <2> QED BY <1>1, <2>1, Unread
<1>12. ViewInv'
  <2> SUFFICES ASSUME NEW x \in Windows
               PROVE  /\ x \notin shown' => view'[x] = << >> /\ told'[x] = {}
                      /\ Window(x, view'[x], told'[x], waiting', last') /\ Past(view'[x], stored', out')
    BY DEF ViewInv, Past
  <2>1. view[x] \in Seq(C!Bubble) /\ Window(x, view[x], told[x], waiting, last) /\ Past(view[x], stored, out)
        /\ (x \notin shown => view[x] = << >> /\ told[x] = {})
    BY DEF ViewInv, C!TypeOK
  <2>2. CASE x = w
    <3>1. view'[x] = g
      BY <1>1, <1>2, <2>2
    <3>2. Past(view'[x], stored', out')
      BY <1>1, <1>8, <3>1 DEF Past, Said
    <3> QED BY <1>1, <1>8, <2>2, <3>1, <3>2
  <2>3. CASE x # w
    <3>1. view'[x] = view[x] /\ (x \notin shown' => x \notin shown)
      BY <1>1, <1>2, <2>3
    <3>2. Window(x, view[x], told[x], waiting', last')
      <4>1. last' \in Nat /\ last <= last' /\ \A y \in waiting : y \in waiting'
        BY <1>1, <1>2
      <4> QED BY <1>2, <2>1, <4>1, SameWindow
    <3>3. Past(view'[x], stored', out')
      BY <1>1, <2>1, <3>1 DEF Past, Said
    <3> QED BY <1>1, <2>1, <3>1, <3>2, <3>3
  <2> QED BY <2>2, <2>3
<1> QED BY <1>9, <1>10, <1>11, <1>12

LEMMA UnmountStep ==
  ASSUME C!BoundsFit, ChatInv, NEW w \in Windows, C!Unmount(w)
  PROVE  ChatInv'
<1> USE DEF ChatInv
<1>1. /\ w \in shown /\ shown' = shown \ {w}
      /\ view' = [view EXCEPT ![w] = << >>] /\ told' = [told EXCEPT ![w] = {}]
      /\ waiting' = {r \in waiting : r.win # w}
      /\ UNCHANGED <<mounts, sends, last, up, deaths, turn, stored, pipe, out>>
  BY DEF C!Unmount, C!harness
<1>2. /\ waiting \subseteq C!Request /\ last \in Nat
      /\ view \in [Windows -> Seq(C!Bubble)] /\ told \in [Windows -> SUBSET C!Ids]
      /\ << >> \in Seq(C!Bubble)
  BY Bounds DEF C!TypeOK
<1>3. C!TypeOK'
  <2>1. view' \in [Windows -> Seq(C!Bubble)] /\ told' \in [Windows -> SUBSET C!Ids]
    BY <1>1, <1>2
  <2> QED BY <1>1, <2>1 DEF C!TypeOK
<1>4. IdsInv' /\ StoredInv'
  <2>1. IdsOK(pipe, waiting', last, shown', turn)
    BY <1>1 DEF IdsInv, IdsOK
  <2> QED BY <1>1, <2>1 DEF IdsInv, StoredInv
<1>5. OutInv' /\ ToldInv'
  <2>1. /\ \A x \in waiting' : x \in waiting \/ x.id > last
        /\ \A x \in Windows : told'[x] \subseteq told[x]
        /\ waiting' \subseteq C!Request /\ last' \in Nat /\ last <= last'
    BY <1>1, <1>2
  <2> QED BY <1>1, <2>1, Unread
<1>6. ViewInv'
  <2> SUFFICES ASSUME NEW x \in Windows
               PROVE  /\ x \notin shown' => view'[x] = << >> /\ told'[x] = {}
                      /\ Window(x, view'[x], told'[x], waiting', last') /\ Past(view'[x], stored', out')
    BY DEF ViewInv, Past
  <2>1. view[x] \in Seq(C!Bubble) /\ Window(x, view[x], told[x], waiting, last) /\ Past(view[x], stored, out)
        /\ (x \notin shown => view[x] = << >> /\ told[x] = {})
    BY DEF ViewInv, C!TypeOK
  <2>2. CASE x = w
    <3>1. view'[x] = << >> /\ told'[x] = {}
      BY <1>1, <1>2, <2>2
    <3> QED BY <3>1 DEF Window, Past, Apart, Shows, WaitsFor
  <2>3. CASE x # w
    <3>1. view'[x] = view[x] /\ told'[x] = told[x]
      BY <1>1, <1>2, <2>3
    <3>2. Window(x, view[x], told[x], waiting', last')
      <4>1. last' \in Nat /\ last <= last' /\ \A r \in waiting : r.win = x => r \in waiting'
        BY <1>1, <1>2, <2>3
      <4> QED BY <1>2, <2>1, <4>1, SameWindow
    <3>3. Past(view'[x], stored', out')
      BY <1>1, <2>1, <3>1 DEF Past, Said
    <3> QED BY <1>1, <2>1, <2>3, <3>1, <3>2, <3>3
  <2> QED BY <2>2, <2>3
<1> QED BY <1>3, <1>4, <1>5, <1>6

LEMMA TimeoutStep ==
  ASSUME C!BoundsFit, ChatInv, NEW r \in waiting, C!Timeout(r)
  PROVE  ChatInv'
<1> USE DEF ChatInv
<1> DEFINE w == r.win
           v == view[w]
           g == C!TimedOut(v, r.id)
<1>1. /\ waiting' = waiting \ {r}
      /\ view' = IF r.kind = "history" THEN view ELSE [view EXCEPT ![w] = g]
      /\ UNCHANGED <<shown, mounts, sends, last, told, up, deaths, turn, stored, pipe, out>>
  BY DEF C!Timeout, C!harness
<1>2. /\ waiting \subseteq C!Request /\ last \in Nat /\ r \in C!Request
      /\ view \in [Windows -> Seq(C!Bubble)] /\ w \in Windows /\ r.kind \in {"history", "send"}
  BY Bounds, Requests DEF C!TypeOK
<1>3. v \in Seq(C!Bubble) /\ Window(w, v, told[w], waiting, last) /\ Past(v, stored, out)
  BY <1>2 DEF ViewInv
<1>4. Apart(v) /\ Shows(v, told[w]) /\ WaitsFor(v, w, waiting)
      /\ \A i \in DOMAIN v : v[i].kind = "wait" => v[i].of <= last
  BY <1>3 DEF Window
<1>5. /\ g \in Seq(C!Bubble) /\ Apart(g) /\ Shows(g, told[w])
      /\ WaitsFor(g, w, waiting \ {C!SendRequest(w, r.id)})
      /\ DOMAIN g = DOMAIN v /\ \A i \in DOMAIN v : g[i].kind = v[i].kind /\ g[i].of = v[i].of
  <2> DEFINE id == r.id
  <2>1. g = C!TimedOut(v, id)
    OBVIOUS
  <2> HIDE DEF v, g, w, id
  <2>2. /\ g \in Seq(C!Bubble) /\ Apart(g)
        /\ WaitsFor(g, w, waiting \ {C!SendRequest(w, id)})
        /\ \A ids : Shows(v, ids) => Shows(g, ids)
        /\ DOMAIN g = DOMAIN v /\ \A i \in DOMAIN v : g[i].kind = v[i].kind /\ g[i].of = v[i].of
    BY <1>3, <1>4, <2>1, TimeoutView
  <2> QED BY <1>4, <2>2 DEF id
<1> HIDE DEF g, v, w
<1>6. r.kind = "send" => r = C!SendRequest(w, r.id)
  BY <1>2 DEF C!SendRequest, C!Request, w
<1>7. C!TypeOK'
  <2>1. view' \in [Windows -> Seq(C!Bubble)]
    BY <1>1, <1>2, <1>5
  <2> QED BY <1>1, <1>2, <2>1 DEF C!TypeOK
<1>8. IdsInv' /\ StoredInv'
  <2>1. IdsOK(pipe, waiting', last, shown, turn)
    BY <1>1 DEF IdsInv, IdsOK
  <2> QED BY <1>1, <2>1 DEF IdsInv, StoredInv
<1>9. OutInv' /\ ToldInv'
  <2>1. /\ \A x \in waiting' : x \in waiting \/ x.id > last
        /\ \A x \in Windows : told'[x] \subseteq told[x]
        /\ waiting' \subseteq C!Request /\ last' \in Nat /\ last <= last'
    BY <1>1, <1>2
  <2> QED BY <1>1, <2>1, Unread
<1>10. ViewInv'
  <2> SUFFICES ASSUME NEW x \in Windows
               PROVE  /\ x \notin shown' => view'[x] = << >> /\ told'[x] = {}
                      /\ Window(x, view'[x], told'[x], waiting', last') /\ Past(view'[x], stored', out')
    BY DEF ViewInv, Past
  <2>1. view[x] \in Seq(C!Bubble) /\ Window(x, view[x], told[x], waiting, last) /\ Past(view[x], stored, out)
        /\ (x \notin shown => view[x] = << >> /\ told[x] = {})
    BY DEF ViewInv, C!TypeOK
  <2>2. CASE x = w /\ r.kind = "send"
    <3>1. view'[x] = g /\ w \in shown
      <4>1. r.win \in shown
        BY DEF IdsInv, IdsOK
      <4>2. view' = [view EXCEPT ![w] = g]
        BY <1>1, <2>2
      <4> QED BY <1>2, <2>2, <4>1, <4>2 DEF w
    <3>2. waiting' = waiting \ {C!SendRequest(w, r.id)}
      BY <1>1, <1>6, <2>2
    <3>3. Window(x, g, told[x], waiting', last)
      BY <1>4, <1>5, <2>2, <3>2 DEF Window
    <3>4. Past(view'[x], stored', out')
      <4>1. Past(g, stored, out)
        BY <1>3, <1>5 DEF Past
      <4> QED BY <1>1, <3>1, <4>1 DEF Past, Said
    <3> QED BY <1>1, <2>2, <3>1, <3>3, <3>4
  <2>3. CASE ~(x = w /\ r.kind = "send")
    <3>1. view'[x] = view[x]
      BY <1>1, <1>2, <2>3
    <3>2. Window(x, view[x], told[x], waiting', last)
      <4>1. last <= last /\ \A y \in waiting : y.win = x /\ y.kind = "send" => y \in waiting'
        BY <1>1, <1>2, <2>3 DEF w
      <4> QED BY <1>2, <2>1, <4>1, SameWindow
    <3>3. Past(view'[x], stored', out')
      BY <1>1, <2>1, <3>1 DEF Past, Said
    <3> QED BY <1>1, <2>1, <3>1, <3>2, <3>3
  <2> QED BY <2>2, <2>3
<1> QED BY <1>7, <1>8, <1>9, <1>10

-----------------------------------------------------------------------------
(* The shell relays a line                                                  *)
LEMMA Relayed ==
  ASSUME C!BoundsFit, ChatInv, out # << >>
  PROVE  /\ out \in Seq(Line) /\ Tail(out) \in Seq(Line) /\ Head(out) = out[1]
         /\ out[1] \in Line /\ 1 \in DOMAIN out
         /\ \A p \in DOMAIN Tail(out) : p + 1 \in DOMAIN out /\ p + 1 > 1 /\ Tail(out)[p] = out[p + 1]
<1>1. out \in Seq(Line)
  BY DEF ChatInv, C!TypeOK, Line
<1>2. /\ Tail(out) \in Seq(Line)
      /\ \A p \in DOMAIN Tail(out) : p \in Nat /\ p # 0 /\ p + 1 \in DOMAIN out /\ Tail(out)[p] = out[p + 1]
  BY <1>1, TailOf, ElementOf
<1>3. 1 \in DOMAIN out /\ Head(out) = out[1] /\ out[1] \in Line
  BY <1>1, ElementOf
<1> QED BY <1>1, <1>2, <1>3

LEMMA ReadAnswerStep == ASSUME C!BoundsFit, ChatInv, C!ReadAnswer PROVE ChatInv'
<1> USE DEF ChatInv
<1> DEFINE line == out[1]
           asked == {r \in waiting : r.id = line.of}
           Asks(x, kind) == \E r \in asked : r.win = x /\ r.kind = kind
           new == [x \in Windows |-> IF Asks(x, "history") THEN C!History(line.turns)
                                     ELSE IF Asks(x, "send") THEN C!Named(view[x], line.of) ELSE view[x]]
<1>1. out # << >> /\ Head(out).kind = "res" /\ out' = Tail(out)
  BY DEF C!ReadAnswer, C!Relay
<1>2. /\ out \in Seq(Line) /\ out' \in Seq(Line) /\ Head(out) = line
      /\ line \in Line /\ 1 \in DOMAIN out
      /\ \A p \in DOMAIN out' : p + 1 \in DOMAIN out /\ p + 1 > 1 /\ out'[p] = out[p + 1]
  BY <1>1, Relayed
<1>3. /\ waiting' = waiting \ asked /\ view' = new
      /\ UNCHANGED <<shown, mounts, sends, last, told, up, deaths, turn, stored, pipe>>
  BY <1>2 DEF C!ReadAnswer, C!harness
<1>4. /\ line.kind = "res" /\ line.of \in C!Ids /\ line.turns \in Seq(C!Stored)
  BY <1>1, <1>2, Lines
<1>5. /\ waiting \subseteq C!Request /\ last \in Nat /\ view \in [Windows -> Seq(C!Bubble)]
      /\ told \in [Windows -> SUBSET C!Ids]
  BY Bounds DEF C!TypeOK
<1>6. /\ OnePet(line.turns)
      /\ \A id \in C!Ids : IsPet(line.turns, id) => IsPet(stored, id)
      /\ \A q \in DOMAIN out : q > 1 /\ IsEvent(out[q]) => ~IsPet(line.turns, out[q].of)
      /\ \A r \in asked : r.kind = "history" => \A id \in told[r.win] : IsPet(line.turns, id)
  BY <1>2, <1>4 DEF OutInv, OutOK
<1> HIDE DEF line, asked
<1>7. \A id : Said(out, id) => Said(out', id)
  BY <1>2 DEF Said
<1>8. \A x \in Windows, r \in asked : r.win = x => x \in shown
  BY DEF asked, IdsInv, IdsOK
<1>9. ASSUME NEW x \in Windows
      PROVE  /\ new[x] \in Seq(C!Bubble)
             /\ Window(x, new[x], told[x], waiting', last)
             /\ x \notin shown => new[x] = << >> /\ told[x] = {}
             /\ \A i \in DOMAIN new[x] : new[x][i].kind = "histPet" =>
                  IsPet(stored, new[x][i].of) /\ Said(out', new[x][i].of)
  <2> DEFINE g == new[x]  v == view[x]
  <2>1. v \in Seq(C!Bubble) /\ Window(x, v, told[x], waiting, last) /\ Past(v, stored, out)
        /\ (x \notin shown => v = << >> /\ told[x] = {})
    BY <1>5 DEF ViewInv
  <2>2. Apart(v) /\ Shows(v, told[x]) /\ WaitsFor(v, x, waiting)
        /\ \A i \in DOMAIN v : v[i].kind = "wait" => v[i].of <= last
    BY <2>1 DEF Window
  <2>3. CASE Asks(x, "history")
    <3> DEFINE h == C!History(line.turns)
    <3>1. g = h /\ x \in shown
      BY <1>8, <2>3
    <3>2. /\ h \in Seq(C!Bubble) /\ Apart(h) /\ Shows(h, {id \in C!Ids : IsPet(line.turns, id)})
          /\ \A i \in DOMAIN h : h[i].kind # "wait" /\ (h[i].kind = "histPet" => IsPet(line.turns, h[i].of))
      BY <1>4, <1>6, HistoryView
    <3>3. \A i \in DOMAIN h : h[i].of \in C!Ids
      <4>1. \A b \in C!Bubble : b.of \in C!Ids
        BY DEF C!Bubble
      <4> HIDE DEF h
      <4> QED BY <3>2, <4>1, ElementOf
    <3> HIDE DEF h
    <3>4. told[x] \subseteq {id \in C!Ids : IsPet(line.turns, id)}
      BY <1>5, <1>6, <2>3
    <3>5. Window(x, h, told[x], waiting', last)
      BY <3>2, <3>4 DEF Window, Shows, WaitsFor
    <3>6. \A id \in C!Ids : IsPet(line.turns, id) => IsPet(stored, id) /\ Said(out', id)
      BY <1>2, <1>6 DEF Said
    <3> HIDE DEF g, new
    <3>7. /\ g \in Seq(C!Bubble) /\ Window(x, g, told[x], waiting', last)
          /\ \A i \in DOMAIN g : g[i].kind = "histPet" => IsPet(stored, g[i].of) /\ Said(out', g[i].of)
      BY <3>1, <3>2, <3>3, <3>5, <3>6
    <3> QED BY <3>1, <3>7 DEF g
  <2>4. CASE ~Asks(x, "history") /\ Asks(x, "send")
    <3>1. g = C!Named(v, line.of) /\ x \in shown
      BY <1>8, <2>4
    <3> HIDE DEF g, v, new
    <3>2. /\ g \in Seq(C!Bubble) /\ Apart(g) /\ Shows(g, told[x])
          /\ \A i \in DOMAIN g : g[i].kind \in {"wait", "histPet"} =>
               /\ g[i].kind = "wait" => g[i].of # line.of
               /\ \E j \in DOMAIN v : g[i] = v[j]
      BY <2>1, <2>2, <3>1, NamedView
    <3>3. WaitsFor(g, x, waiting')
      <4>1. \A id : C!SendRequest(x, id).id = id
        BY DEF C!SendRequest
      <4> QED BY <1>3, <2>2, <3>2, <4>1 DEF WaitsFor, asked
    <3>4. \A i \in DOMAIN g : g[i].kind = "wait" => g[i].of <= last
      BY <2>2, <3>2
    <3>5. \A i \in DOMAIN g : g[i].kind = "histPet" => IsPet(stored, g[i].of) /\ Said(out', g[i].of)
      BY <1>7, <2>1, <3>2 DEF Past
    <3> QED BY <3>1, <3>2, <3>3, <3>4, <3>5 DEF g, Window
  <2>5. CASE ~Asks(x, "history") /\ ~Asks(x, "send")
    <3>1. g = v
      BY <2>5
    <3>2. \A y \in waiting : y.win = x /\ y.kind = "send" => y \in waiting'
      BY <1>3, <2>5
    <3> HIDE DEF g, v, new
    <3>3. Window(x, v, told[x], waiting', last)
      BY <1>5, <2>1, <3>2, SameWindow
    <3>4. \A i \in DOMAIN v : v[i].kind = "histPet" => IsPet(stored, v[i].of) /\ Said(out', v[i].of)
      BY <1>7, <2>1 DEF Past
    <3> QED BY <2>1, <3>1, <3>3, <3>4 DEF g
  <2> QED BY <2>3, <2>4, <2>5
<1>10. view' \in [Windows -> Seq(C!Bubble)] /\ \A x \in Windows : view'[x] = new[x]
  BY <1>3, <1>9
<1> HIDE DEF new
<1>11. C!TypeOK'
  <2>1. out' \in Seq(C!Event \cup C!Answer) /\ waiting' \subseteq C!Request
    BY <1>2, <1>3, <1>5 DEF Line
  <2> QED BY <1>3, <1>10, <2>1 DEF C!TypeOK
<1>12. IdsInv' /\ StoredInv'
  <2>1. IdsOK(pipe, waiting', last, shown, turn)
    BY <1>3 DEF IdsInv, IdsOK
  <2> QED BY <1>3, <2>1 DEF IdsInv, StoredInv
<1>13. OutInv'
  <2>1. OutOK(out, stored, waiting, told, last) /\ waiting' \subseteq waiting
    BY <1>3 DEF OutInv
  <2>2. OutOK(out', stored, waiting', told, last)
    BY <1>1, <1>2, <2>1, OutTail
  <2> QED BY <1>3, <2>2 DEF OutInv
<1>14. ToldInv'
  BY <1>3, <1>7 DEF ToldInv
<1>15. ViewInv'
  <2>1. \A x \in Windows : Past(view'[x], stored', out')
    BY <1>3, <1>9, <1>10 DEF Past
  <2> QED BY <1>3, <1>9, <1>10, <2>1 DEF ViewInv
<1> QED BY <1>11, <1>12, <1>13, <1>14, <1>15

LEMMA ReadEventStep == ASSUME C!BoundsFit, ChatInv, C!ReadEvent PROVE ChatInv'
<1> USE DEF ChatInv
<1> DEFINE line == out[1]
           new == [x \in Windows |-> IF x \in shown THEN C!Upserted(view[x], line) ELSE view[x]]
           heard == [x \in Windows |-> IF x \in shown /\ line.kind = "done"
                                         THEN told[x] \cup {line.of} ELSE told[x]]
<1>1. out # << >> /\ Head(out).kind \in {"progress", "done", "error"} /\ out' = Tail(out)
  BY DEF C!ReadEvent, C!Relay
<1>2. /\ out \in Seq(Line) /\ out' \in Seq(Line) /\ Head(out) = line
      /\ line \in Line /\ 1 \in DOMAIN out
      /\ \A p \in DOMAIN out' : p + 1 \in DOMAIN out /\ p + 1 > 1 /\ out'[p] = out[p + 1]
  BY <1>1, Relayed
<1>3. /\ view' = new /\ told' = heard
      /\ UNCHANGED <<shown, mounts, sends, last, waiting, up, deaths, turn, stored, pipe>>
  BY <1>2 DEF C!ReadEvent, C!harness
<1>4. line \in C!Event /\ IsEvent(line) /\ line.of \in C!Ids
  BY <1>1, <1>2 DEF Line, C!Event, C!Answer, IsEvent
<1>5. /\ waiting \subseteq C!Request /\ last \in Nat /\ view \in [Windows -> Seq(C!Bubble)]
      /\ told \in [Windows -> SUBSET C!Ids]
  BY Bounds DEF C!TypeOK
<1>6. line.kind = "done" => /\ IsPet(stored, line.of)
                            /\ \A q \in DOMAIN out : q > 1 /\ IsEvent(out[q]) => out[q].of # line.of
  BY <1>2 DEF OutInv, OutOK
<1>7. /\ \A id : Said(out, id) => Said(out', id) /\ id # line.of
      /\ line.kind = "done" => Said(out', line.of)
  BY <1>2, <1>4, <1>6 DEF Said
<1>8. /\ \A x \in Windows : new[x] = IF x \in shown THEN C!Upserted(view[x], line) ELSE view[x]
      /\ \A x \in Windows : heard[x] = IF x \in shown /\ line.kind = "done"
                                         THEN told[x] \cup {line.of} ELSE told[x]
  OBVIOUS
<1>9. heard \in [Windows -> SUBSET C!Ids]
  BY <1>4, <1>5
<1>10. view' = [x \in Windows |-> new[x]]
  BY <1>3
<1> HIDE DEF line, new, heard
<1>11. ASSUME NEW x \in Windows
       PROVE  /\ new[x] \in Seq(C!Bubble)
              /\ Window(x, new[x], heard[x], waiting, last)
              /\ x \notin shown => new[x] = << >> /\ heard[x] = {}
              /\ Past(new[x], stored, out')
  <2> DEFINE g == new[x]  v == view[x]
  <2>1. v \in Seq(C!Bubble) /\ Window(x, v, told[x], waiting, last) /\ Past(v, stored, out)
        /\ (x \notin shown => v = << >> /\ told[x] = {})
    BY <1>5 DEF ViewInv
  <2>2. Apart(v) /\ Shows(v, told[x]) /\ WaitsFor(v, x, waiting)
        /\ \A i \in DOMAIN v : v[i].kind = "wait" => v[i].of <= last
    BY <2>1 DEF Window
  <2>3. CASE x \in shown
    <3>1. g = C!Upserted(v, line) /\ heard[x] = IF line.kind = "done" THEN told[x] \cup {line.of} ELSE told[x]
      BY <1>8, <2>3
    <3>2. \A i \in DOMAIN v : v[i].kind = "histPet" => v[i].of # line.of
      BY <1>7, <2>1 DEF Past
    <3>3. line.of \notin told[x]
      BY <1>7 DEF ToldInv
    <3> HIDE DEF g, v
    <3>4. /\ g \in Seq(C!Bubble) /\ Apart(g)
          /\ \A ids : Shows(v, ids) /\ line.of \notin ids =>
               Shows(g, ids) /\ (line.kind = "done" => Shows(g, ids \cup {line.of}))
          /\ \A i \in DOMAIN g : g[i].kind \in {"wait", "histPet"} => i \in DOMAIN v /\ g[i] = v[i]
      <4>1. v \in Seq(C!Bubble) /\ line \in C!Event /\ Apart(v) /\ g = C!Upserted(v, line)
        BY <1>4, <2>1, <2>2, <3>1
      <4> QED BY <3>2, <4>1, UpsertedView
    <3>5. Shows(g, heard[x])
      BY <2>2, <3>1, <3>3, <3>4
    <3>6. WaitsFor(g, x, waiting) /\ \A i \in DOMAIN g : g[i].kind = "wait" => g[i].of <= last
      BY <2>2, <3>4 DEF WaitsFor
    <3>7. Past(g, stored, out')
      BY <1>7, <2>1, <3>4 DEF Past
    <3> QED BY <2>3, <3>4, <3>5, <3>6, <3>7 DEF Window, g
  <2>4. CASE x \notin shown
    <3>1. g = v /\ heard[x] = told[x] /\ v = << >>
      BY <1>8, <2>1, <2>4
    <3>2. Past(v, stored, out')
      BY <1>7, <2>1 DEF Past
    <3> QED BY <2>1, <3>1, <3>2
  <2> QED BY <2>3, <2>4
<1>12. view' \in [Windows -> Seq(C!Bubble)]
  BY <1>10, <1>11
<1>13. C!TypeOK'
  <2>1. out' \in Seq(C!Event \cup C!Answer)
    BY <1>2 DEF Line
  <2> QED BY <1>3, <1>9, <1>12, <2>1 DEF C!TypeOK
<1>14. IdsInv' /\ StoredInv'
  BY <1>3 DEF IdsInv, StoredInv
<1>15. OutInv'
  <2>1. OutOK(out, stored, waiting, told, last)
    BY DEF OutInv
  <2>2. \A r \in waiting : \A id \in heard[r.win] :
          id \in told[r.win] \/ (out[1].kind = "done" /\ id = out[1].of)
    <3>1. \A r \in waiting : r.win \in Windows
      BY <1>5, Requests
    <3> QED BY <1>8, <3>1 DEF line
  <2>3. OutOK(out', stored, waiting, heard, last)
    BY <1>1, <1>2, <2>1, <2>2, OutTail
  <2> QED BY <1>3, <2>3 DEF OutInv
<1>16. ToldInv'
  <2>1. \A x \in Windows : \A id \in heard[x] : IsPet(stored, id) /\ Said(out', id)
    BY <1>6, <1>7, <1>8 DEF ToldInv
  <2> QED BY <1>3, <2>1 DEF ToldInv
<1>17. ViewInv'
  BY <1>3, <1>11 DEF ViewInv
<1> QED BY <1>13, <1>14, <1>15, <1>16, <1>17

-----------------------------------------------------------------------------
(* The theorems                                                             *)
LEMMA InitInv == ASSUME C!BoundsFit, C!Init PROVE ChatInv
<1>1. C!TypeOK
  BY ChatTypeInit
<1>2. /\ stored = << >> /\ out = << >> /\ pipe = << >> /\ waiting = {} /\ turn = C!NoTurn
      /\ sends = 0 /\ mounts = 0 /\ last = 0
      /\ \A w \in Windows : view[w] = << >> /\ told[w] = {}
  BY DEF C!Init
<1>3. DOMAIN << >> = {}
  OBVIOUS
<1>4. IdsInv /\ StoredInv
  BY <1>2, <1>3 DEF IdsInv, IdsOK, StoredInv, StoredOK, OnePet, IsPet
<1>5. OutInv /\ ToldInv
  BY <1>2, <1>3 DEF OutInv, OutOK, ToldInv
<1>6. ViewInv
  BY <1>2, <1>3 DEF ViewInv, Window, Apart, Shows, WaitsFor, Past
<1> QED BY <1>1, <1>4, <1>5, <1>6 DEF ChatInv

LEMMA StepInv == ASSUME C!BoundsFit, ChatInv, [C!Next]_(C!vars) PROVE ChatInv'
<1>1. ASSUME NEW w \in Windows, C!Mount(w) \/ C!Unmount(w) \/ C!Send(w) PROVE ChatInv'
  BY <1>1, MountStep, UnmountStep, SendStep
<1>2. ASSUME NEW r \in waiting, C!Timeout(r) PROVE ChatInv'
  BY <1>2, TimeoutStep
<1> QED
  BY <1>1, <1>2, MountWithSeedStep, ReadAnswerStep, ReadEventStep, HandleHistoryStep, HandleSendStep,
     PreTurnStep, FailsStep, StreamStep, TurnDoneStep, DieStep, RelaunchStep
     DEF C!Next, C!Rejected, C!StreamFails

\* The types, the ids, and how the lines not yet read stand to what is stored
\* and to what the windows show, in every behaviour.
THEOREM ChatInvariant == C!BoundsFit => (C!Spec => []ChatInv)
<1> SUFFICES ASSUME C!BoundsFit PROVE C!Spec => []ChatInv
  OBVIOUS
<1>1. C!Init => ChatInv
  BY InitInv
<1>2. ChatInv /\ [C!Next]_(C!vars) => ChatInv'
  BY StepInv
<1> QED BY <1>1, <1>2, PTL DEF C!Spec

\* Whatever comes first, the answer, an event, the history, the timeout or the
\* death of the harness: a placeholder that moves belongs to a request that waits.
THEOREM Placeholders == C!BoundsFit => (C!Spec => []NoOrphanPlaceholder)
<1>1. ChatInv => NoOrphanPlaceholder
  BY DEF ChatInv, ViewInv, Window, WaitsFor, NoOrphanPlaceholder, C!SendRequest
<1> QED BY <1>1, ChatInvariant, PTL

\* However lines, histories and windows interleave, a reply a window was told of
\* stands in its list, whole and once.
THEOREM Replies == C!BoundsFit => (C!Spec => []ReplyShownOnce)
<1>1. ChatInv => ReplyShownOnce
  <2> SUFFICES ASSUME ChatInv, NEW w \in Windows, NEW id \in told[w]
               PROVE  \E i \in DOMAIN view[w] :
                        /\ view[w][i].of = id /\ view[w][i].text = "reply" /\ ~view[w][i].moving
                        /\ \A j \in DOMAIN view[w] :
                             view[w][j].of = id /\ view[w][j].kind \in {"turn", "histPet"} => j = i
    BY DEF ReplyShownOnce
  <2>1. Apart(view[w]) /\ Shows(view[w], told[w])
    BY DEF ChatInv, ViewInv, Window
  <2>2. PICK i \in DOMAIN view[w] : /\ IsReply(view[w][i]) /\ view[w][i].of = id
                                    /\ view[w][i].text = "reply" /\ ~view[w][i].moving
    BY <2>1 DEF Shows
  <2>3. \A j \in DOMAIN view[w] : view[w][j].of = id /\ view[w][j].kind \in {"turn", "histPet"} => j = i
    BY <2>1, <2>2 DEF Apart, IsReply
  <2> QED BY <2>2, <2>3
<1> QED BY <1>1, ChatInvariant, PTL

=============================================================================
