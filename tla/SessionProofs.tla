---------------------------- MODULE SessionProofs ----------------------------
(***************************************************************************)
(* Theorems of Session, for any number of requests in flight and of pairs. *)
(*                                                                         *)
(* That a login has one heir is the gateway's doing and holds whatever the *)
(* client does. That the client keeps it rests on what is in whose hands:  *)
(* a pair a thread carries is live and nobody else's, so the pairs of      *)
(* requests that refresh at the same time never come in each other's way,  *)
(* and what a logout takes along from memory is the heir, or its heir is   *)
(* in a thread's hands or granted before the gateway revokes it.           *)
(***************************************************************************)
EXTENDS Session, TLAPS

Known ==
  /\ refresh <= issued /\ keyAccess <= issued /\ keyRefresh <= issued
  /\ \A t \in Thread : th[t].token <= issued
  /\ \A n \in 1..issued : root[n] \in 1..issued
  /\ signedOut \subseteq 1..issued

GatewayInv == TypeOK /\ Known /\ OneLivePerLogin

\* Where each kind of thread may be, and which exclude each other.
Places ==
  /\ \A c \in Caller : th[c].at \in {"idle", "sent", "asking", "storeR", "storedR"} \cup Carrying
  /\ th["login"].at \in {"idle", "posting", "storeR", "storedR"} \cup Carrying
  /\ th["logout"].at \in {"idle", "leaving", "left", "deleteA", "deleteR"}
  /\ th["boot"].at \in {"idle", "loadA", "loadedA", "loadR", "loadedR"}

\* While the keychain is read nothing else goes on but requests without token.
Exclusive ==
  ~At("boot", "idle") =>
    /\ refresh = 0 /\ At("login", "idle") /\ At("logout", "idle")
    /\ \A c \in Caller : th[c].at \in {"idle", "sent"}

Carries(t) == th[t].at \in Carrying

InHand ==
  \A t \in Thread : Carries(t) =>
    /\ th[t].token \in live /\ th[t].token # refresh
    /\ \A u \in Thread \ {t} :
         th[u].at \in {"asking", "leaving"} \cup Carrying => th[u].token # th[t].token

BootKnows ==
  \A n \in live :
    /\ th["boot"].at \in {"loadA", "loadedA", "loadR"} => n = keyRefresh \/ root[n] \in adrift
    /\ At("boot", "loadedR") => n = th["boot"].token \/ root[n] \in adrift

\* The live token of the login in memory is in memory, or carried there.
Heir ==
  \A n \in live : refresh # 0 /\ root[n] = root[refresh] =>
    \/ n = refresh \/ root[n] \in adrift
    \/ \E t \in Thread : Carries(t) /\ th[t].token = n

\* And so is that of the login whose logout is on its way to the gateway.
Leaves ==
  At("logout", "leaving") => \A n \in live : root[n] \in RootOf(th["logout"].token) =>
    n = th["logout"].token \/ root[n] \in adrift \cup overlapped

ClientInv == Places /\ Exclusive /\ InHand /\ BootKnows /\ Heir /\ Leaves

IInv == GatewayInv /\ ClientInv /\ LiveTokenHeld /\ LogoutRevokes
-----------------------------------------------------------------------------
(***************************************************************************)
(* A step moves one thread, to a place and with a token in hand, and       *)
(* leaves the others where they are.                                       *)
(***************************************************************************)
Moved(t, place, n) ==
  /\ th' \in [Thread -> State]
  /\ th'[t].at = place /\ th'[t].token = n
  /\ \A u \in Thread : u # t => th'[u] = th[u]

\* Goes, Takes and Returns, and the three actions that set more of a thread.
LEMMA Moves ==
  ASSUME TypeOK, NEW t \in Thread, NEW place \in Place, NEW n \in Token
  PROVE  /\ Goes(t, place) => Moved(t, place, th[t].token) /\ th'[t].again = th[t].again
         /\ Takes(t, place, n) => Moved(t, place, n) /\ th'[t].again = th[t].again
         /\ Returns(t) => Moved(t, "idle", 0) /\ ~th'[t].again
<1>1. th \in [Thread -> State] /\ th[t] \in State
  BY DEF TypeOK
<1>2. [th[t] EXCEPT !.at = place] \in State /\ [th[t] EXCEPT !.at = place, !.token = n] \in State
  BY <1>1 DEF State
<1>3. Idle \in State
  BY SessionAssumption DEF State, Idle, Place, Token
<1>4. ASSUME Goes(t, place) PROVE Moved(t, place, th[t].token) /\ th'[t].again = th[t].again
  <2>1. th' = [th EXCEPT ![t] = [th[t] EXCEPT !.at = place]]
    BY <1>4 DEF Goes
  <2>2. th' \in [Thread -> State]
    BY <1>1, <1>2, <2>1
  <2> QED
    BY <1>1, <2>1, <2>2 DEF Moved, State
<1>5. ASSUME Takes(t, place, n) PROVE Moved(t, place, n) /\ th'[t].again = th[t].again
  <2>1. th' = [th EXCEPT ![t] = [th[t] EXCEPT !.at = place, !.token = n]]
    BY <1>5 DEF Takes
  <2>2. th' \in [Thread -> State]
    BY <1>1, <1>2, <2>1
  <2> QED
    BY <1>1, <2>1, <2>2 DEF Moved, State
<1>6. ASSUME Returns(t) PROVE Moved(t, "idle", 0) /\ ~th'[t].again
  BY <1>1, <1>3, <1>6 DEF Moved, Returns, Idle
<1> QED
  BY <1>4, <1>5, <1>6

LEMMA RequestMoves ==
  ASSUME TypeOK, NEW c \in Caller
  PROVE  /\ Start(c) => Moved(c, "sent", th[c].token)
         /\ Resend(c) => Moved(c, "sent", 0)
         /\ Asks(c) => Moved(c, "asking", refresh) /\ ~th'[c].again
<1>1. th \in [Thread -> State] /\ th[c] \in State /\ c \in Thread /\ access \in Token
  BY DEF TypeOK, Thread
<1>2. "sent" \in Place /\ 0 \in Token
  BY SessionAssumption DEF Place, Token
<1>3. [th[c] EXCEPT !.at = "sent", !.access = access] \in State
  BY <1>1, <1>2 DEF State
<1>4. ASSUME Start(c) PROVE Moved(c, "sent", th[c].token)
  <2>1. th' = [th EXCEPT ![c] = [th[c] EXCEPT !.at = "sent", !.access = access]]
    BY <1>4 DEF Start
  <2>2. th' \in [Thread -> State]
    BY <1>1, <1>3, <2>1
  <2> QED
    BY <1>1, <2>1, <2>2 DEF Moved, State
<1>5. ASSUME Resend(c) PROVE Moved(c, "sent", 0)
  BY <1>1, <1>2, <1>5 DEF Resend, Moved, State
<1>6. ASSUME Asks(c) PROVE Moved(c, "asking", refresh) /\ ~th'[c].again
  <2> DEFINE Asking == [Idle EXCEPT !.at = "asking", !.token = refresh]
  <2>1. Asking \in State /\ Asking.at = "asking" /\ Asking.token = refresh /\ ~Asking.again
    BY <1>2 DEF TypeOK, State, Idle, Place
  <2>2. th' = [th EXCEPT ![c] = Asking]
    BY <1>6 DEF Asks
  <2> HIDE DEF Asking
  <2> QED
    BY <1>1, <2>1, <2>2 DEF Moved
<1> QED
  BY <1>4, <1>5, <1>6

LEMMA LogoutMoves ==
  ASSUME TypeOK, PostLogout
  PROVE  Moved("logout", "leaving", refresh)
<1>1. th \in [Thread -> State] /\ "logout" \in Thread /\ access \in Token /\ refresh \in Token
  BY DEF TypeOK, Thread
<1> DEFINE Leaving == [Idle EXCEPT !.at = "leaving", !.access = access, !.token = refresh]
<1>2. Leaving \in State /\ Leaving.at = "leaving" /\ Leaving.token = refresh
  BY <1>1 DEF State, Idle, Place
<1>3. th' = [th EXCEPT !["logout"] = Leaving]
  BY DEF PostLogout
<1> HIDE DEF Leaving
<1> QED
  BY <1>1, <1>2, <1>3 DEF Moved
-----------------------------------------------------------------------------
(***************************************************************************)
(* The gateway: no step gives a login a second live refresh token.         *)
(***************************************************************************)
\* What a step that issues nothing and signs nobody out has to respect.
Sound(t, place, n) ==
  /\ Moved(t, place, n)
  /\ t \in Caller /\ place \in {"asking"} \cup Carrying => ~th'[t].again

NoIssue ==
  /\ issued' = issued /\ root' = root
  /\ fresh' \subseteq fresh /\ live' \subseteq live

ClientTyped ==
  /\ access' \in Token /\ refresh' \in 0..issued /\ loginState' \in {"anon", "logged_in"}
  /\ keyAccess' \in 0..issued /\ keyRefresh' \in 0..issued
  /\ left' \in SUBSET Token /\ adrift' \in SUBSET Token /\ out' \in BOOLEAN
  /\ overlapped' \in SUBSET Token /\ displaced' \in SUBSET Token
  /\ signedOut' \subseteq 1..issued

LEMMA RootKnown ==
  ASSUME GatewayInv, NEW n \in 0..issued
  PROVE  RootOf(n) \subseteq 1..issued /\ 1..issued \subseteq Token /\ 0..issued \subseteq Token
  BY SessionAssumption DEF GatewayInv, TypeOK, Known, RootOf, Token

LEMMA NoIssueKeeps ==
  ASSUME GatewayInv, NoIssue, ClientTyped,
         \/ \E t \in Thread, place \in Place, n \in 0..issued : Sound(t, place, n)
         \/ th' \in [Thread -> State] /\ \A t \in Thread : th'[t].at \in {"idle", "loadA"} /\ th'[t].token = 0
         \/ th' = th
  PROVE  GatewayInv'
<1>1. th' \in [Thread -> State] /\ \A t \in Thread : th'[t].token <= issued
  BY SessionAssumption DEF GatewayInv, TypeOK, Known, Sound, Moved, Thread, State, Token
<1>2. \A c \in Caller : th'[c].at \in {"asking"} \cup Carrying => ~th'[c].again
  BY DEF GatewayInv, TypeOK, Known, Sound, Moved, Thread, State, Carrying
<1>3. TypeOK'
  BY <1>1, <1>2, RootKnown DEF GatewayInv, TypeOK, NoIssue, ClientTyped, Token
<1>4. Known'
  BY <1>1 DEF GatewayInv, TypeOK, Known, NoIssue, ClientTyped
<1>5. OneLivePerLogin'
  BY DEF GatewayInv, OneLivePerLogin, NoIssue
<1> QED
  BY <1>3, <1>4, <1>5 DEF GatewayInv
LEMMA IssueKeeps ==
  ASSUME GatewayInv, NEW t \in Caller \cup {"login"}, NEW login, NEW rest \in SUBSET live,
         Issue(t, login, rest), login \in 1..(issued + 1), ~th[t].again \/ t = "login",
         \A n \in rest : root[n] # login
  PROVE  GatewayInv'
<1>1. issued \in Nat /\ issued + 1 \in Token /\ issued + 1 \in Pair /\ "granted" \in Place /\ t \in Thread
  BY SessionAssumption DEF GatewayInv, TypeOK, Issue, Token, Pair, Place, Carrying, Thread
<1>2. Moved(t, "granted", issued + 1) /\ th'[t].again = th[t].again
  BY <1>1, Moves DEF GatewayInv, Issue
<1>3. /\ issued' = issued + 1 /\ fresh' = fresh \cup {issued + 1} /\ live' = rest \cup {issued + 1}
      /\ root' = [root EXCEPT ![issued + 1] = login]
      /\ overlapped' \subseteq overlapped \cup {login} /\ login \in Token
      /\ UNCHANGED <<access, refresh, loginState, keyAccess, keyRefresh, left, signedOut, adrift, displaced, out>>
  BY <1>1, SessionAssumption DEF Issue, client, keychain, Token
<1>4. root' \in [Pair -> Token] /\ root'[issued + 1] = login /\ \A n \in 1..issued : root'[n] = root[n]
  BY <1>1, <1>3, SessionAssumption DEF GatewayInv, TypeOK, Token, Pair
<1>5. \A c \in Caller : th'[c].at \in {"asking"} \cup Carrying => ~th'[c].again
  BY <1>2, SessionAssumption DEF GatewayInv, TypeOK, Moved, Thread
<1>6. TypeOK'
  BY <1>1, <1>2, <1>3, <1>4, <1>5 DEF GatewayInv, TypeOK, Moved
<1>7. Known'
  <2>1. \A u \in Thread : th'[u].token <= issued'
    BY <1>1, <1>2, <1>3 DEF GatewayInv, TypeOK, Known, Moved, State, Token
  <2>2. \A n \in 1..issued' : root'[n] \in 1..issued'
    BY <1>1, <1>3, <1>4 DEF GatewayInv, Known
  <2>3. refresh' <= issued' /\ keyAccess' <= issued' /\ keyRefresh' <= issued'
    BY <1>1, <1>3 DEF GatewayInv, TypeOK, Known, Token
  <2>4. signedOut' \subseteq 1..issued'
    BY <1>1, <1>3 DEF GatewayInv, Known
  <2> QED
    BY <2>1, <2>2, <2>3, <2>4 DEF Known
<1>8. OneLivePerLogin'
  BY <1>1, <1>3, <1>4 DEF GatewayInv, TypeOK, OneLivePerLogin
<1> QED
  BY <1>6, <1>7, <1>8 DEF GatewayInv

LEMMA GatewayStep == GatewayInv /\ [Next]_vars => GatewayInv'
<1> SUFFICES ASSUME GatewayInv, [Next]_vars PROVE GatewayInv'
  OBVIOUS
<1> USE DEF Sound
<1>t. TypeOK /\ Known
  BY DEF GatewayInv
<1>p. /\ {"idle", "sent", "asking", "posting", "leaving", "left", "deleteA", "deleteR"} \subseteq Place
      /\ {"loadA", "loadedA", "loadR", "loadedR", "storeR", "storedR"} \cup Carrying \subseteq Place
      /\ 0 \in Token /\ issued \in Nat /\ 0 \in 0..issued /\ 0..issued \subseteq Token
  BY <1>t, SessionAssumption DEF Place, Carrying, TypeOK, Token
<1>h. \A t \in Thread : th[t] \in State /\ th[t].token \in 0..issued
  BY <1>t DEF TypeOK, Known, State, Token
<1>r. \A n \in 0..issued : RootOf(n) \subseteq Token /\ RootOf(n) \subseteq 1..issued
  BY RootKnown
<1>k. refresh \in 0..issued /\ keyAccess \in 0..issued /\ keyRefresh \in 0..issued
  BY <1>t DEF TypeOK, Known, Token
<1>l. \A n \in live : n \in 1..issued /\ root[n] \in 1..issued /\ root[n] \in Token
  <2>1. \A n \in live : n \in 1..issued
    BY <1>t DEF TypeOK
  <2> QED
    BY <1>t, <1>p, <2>1 DEF Known
<1>1. ASSUME NEW c \in Caller, Start(c) PROVE GatewayInv'
  <2>1. NoIssue /\ ClientTyped
    BY <1>1, <1>t, <1>p, <1>h, <1>r, <1>k DEF Start, client, keychain, gateway, history, NoIssue, ClientTyped, TypeOK, Known, Thread
  <2>2. Sound(c, "sent", th[c].token)
    BY <1>1, <1>t, <1>p, <1>h, <1>k, RequestMoves DEF Start, Thread, Carrying, TypeOK, At
  <2> QED
    BY <1>p, <1>h, <1>k, <2>1, <2>2, NoIssueKeeps DEF Thread, Carrying
<1>2. ASSUME NEW c \in Caller, Answered(c) PROVE GatewayInv'
  <2>1. NoIssue /\ ClientTyped
    BY <1>2, <1>t, <1>p, <1>h, <1>r, <1>k DEF Answered, client, keychain, gateway, history, NoIssue, ClientTyped, TypeOK, Known, Thread
  <2>2. Sound(c, "idle", 0)
    BY <1>2, <1>t, <1>p, <1>h, <1>k, Moves DEF Answered, Thread, Carrying, TypeOK, At
  <2> QED
    BY <1>p, <1>h, <1>k, <2>1, <2>2, NoIssueKeeps DEF Thread, Carrying
<1>3. ASSUME NEW c \in Caller, Unauthorised(c) PROVE GatewayInv'
  <2>1. NoIssue /\ ClientTyped
    BY <1>3, <1>t, <1>p, <1>h, <1>r, <1>k DEF Unauthorised, client, keychain, gateway, history, NoIssue, ClientTyped, TypeOK, Known, Thread
  <2>2. Sound(c, "idle", 0) \/ Sound(c, "asking", refresh)
    BY <1>3, <1>t, <1>p, <1>h, <1>k, Moves, RequestMoves DEF Unauthorised, Thread, Carrying, TypeOK
  <2> QED
    BY <1>p, <1>h, <1>k, <2>1, <2>2, NoIssueKeeps DEF Thread
<1>4. ASSUME NEW c \in Caller, Refuse(c) PROVE GatewayInv'
  <2>1. NoIssue /\ ClientTyped
    BY <1>4, <1>t, <1>p, <1>h, <1>r, <1>k DEF Refuse, client, keychain, gateway, history, NoIssue, ClientTyped, TypeOK, Known, Thread
  <2>2. Sound(c, "idle", 0)
    BY <1>4, <1>t, <1>p, <1>h, <1>k, Moves DEF Refuse, Thread, Carrying, TypeOK, At
  <2> QED
    BY <1>p, <1>h, <1>k, <2>1, <2>2, NoIssueKeeps DEF Thread, Carrying
<1>5. ASSUME NEW c \in Caller, Resend(c) PROVE GatewayInv'
  <2>1. NoIssue /\ ClientTyped
    BY <1>5, <1>t, <1>p, <1>h, <1>r, <1>k DEF Resend, client, keychain, gateway, history, NoIssue, ClientTyped, TypeOK, Known, Thread
  <2>2. Sound(c, "sent", 0)
    BY <1>5, <1>t, <1>p, <1>h, <1>k, RequestMoves DEF Resend, Thread, Carrying, TypeOK, At
  <2> QED
    BY <1>p, <1>h, <1>k, <2>1, <2>2, NoIssueKeeps DEF Thread, Carrying
<1>6. ASSUME NEW t \in Caller \cup {"login"}, Receive(t) PROVE GatewayInv'
  <2>1. NoIssue /\ ClientTyped
    BY <1>6, <1>t, <1>p, <1>h, <1>r, <1>k DEF Receive, client, keychain, gateway, history, NoIssue, ClientTyped, TypeOK, Known, Thread
  <2>2. Sound(t, "storeA", th[t].token)
    BY <1>6, <1>t, <1>p, <1>h, <1>k, Moves DEF Receive, Thread, Carrying, TypeOK, At
  <2> QED
    BY <1>p, <1>h, <1>k, <2>1, <2>2, NoIssueKeeps DEF Thread, Carrying
<1>7. ASSUME NEW t \in Caller \cup {"login"}, AnswerLost(t) PROVE GatewayInv'
  <2>1. NoIssue /\ ClientTyped
    BY <1>7, <1>t, <1>p, <1>h, <1>r, <1>k DEF AnswerLost, client, keychain, gateway, history, NoIssue, ClientTyped, TypeOK, Known, Thread
  <2>2. Sound(t, "idle", 0)
    BY <1>7, <1>t, <1>p, <1>h, <1>k, Moves DEF AnswerLost, Thread, Carrying, TypeOK, At
  <2> QED
    BY <1>p, <1>h, <1>k, <2>1, <2>2, NoIssueKeeps DEF Thread, Carrying
<1>8. ASSUME NEW t \in Caller \cup {"login"}, StoreAccess(t) PROVE GatewayInv'
  <2>1. NoIssue /\ ClientTyped
    BY <1>8, <1>t, <1>p, <1>h, <1>r, <1>k DEF StoreAccess, client, keychain, gateway, history, NoIssue, ClientTyped, TypeOK, Known, Thread
  <2>2. Sound(t, "storedA", th[t].token)
    BY <1>8, <1>t, <1>p, <1>h, <1>k, Moves DEF StoreAccess, Thread, Carrying, TypeOK, At
  <2> QED
    BY <1>p, <1>h, <1>k, <2>1, <2>2, NoIssueKeeps DEF Thread, Carrying
<1>9. ASSUME NEW t \in Caller \cup {"login"}, AccessNotStored(t) PROVE GatewayInv'
  <2>1. NoIssue /\ ClientTyped
    BY <1>9, <1>t, <1>p, <1>h, <1>r, <1>k DEF AccessNotStored, client, keychain, gateway, history, NoIssue, ClientTyped, TypeOK, Known, Thread
  <2>2. Sound(t, "idle", 0)
    BY <1>9, <1>t, <1>p, <1>h, <1>k, Moves DEF AccessNotStored, Thread, Carrying, TypeOK, At
  <2> QED
    BY <1>p, <1>h, <1>k, <2>1, <2>2, NoIssueKeeps DEF Thread, Carrying
<1>10. ASSUME NEW t \in Caller \cup {"login"}, KeepRefresh(t) PROVE GatewayInv'
  <2>1. NoIssue /\ ClientTyped
    BY <1>10, <1>t, <1>p, <1>h, <1>r, <1>k DEF KeepRefresh, Replaces, client, keychain, gateway, history, NoIssue, ClientTyped, TypeOK, Known, Thread
  <2>2. Sound(t, "storeR", th[t].token)
    BY <1>10, <1>t, <1>p, <1>h, <1>k, Moves DEF KeepRefresh, Thread, Carrying, TypeOK, At
  <2> QED
    BY <1>p, <1>h, <1>k, <2>1, <2>2, NoIssueKeeps DEF Thread, Carrying
<1>11. ASSUME NEW t \in Caller \cup {"login"}, StoreRefresh(t) PROVE GatewayInv'
  <2>1. NoIssue /\ ClientTyped
    BY <1>11, <1>t, <1>p, <1>h, <1>r, <1>k DEF StoreRefresh, client, keychain, gateway, history, NoIssue, ClientTyped, TypeOK, Known, Thread
  <2>2. Sound(t, "storedR", th[t].token)
    BY <1>11, <1>t, <1>p, <1>h, <1>k, Moves DEF StoreRefresh, Thread, Carrying, TypeOK, At
  <2> QED
    BY <1>p, <1>h, <1>k, <2>1, <2>2, NoIssueKeeps DEF Thread, Carrying
<1>12. ASSUME NEW t \in Caller \cup {"login"}, RefreshNotStored(t) PROVE GatewayInv'
  <2>1. NoIssue /\ ClientTyped
    BY <1>12, <1>t, <1>p, <1>h, <1>r, <1>k DEF RefreshNotStored, client, keychain, gateway, history, NoIssue, ClientTyped, TypeOK, Known, Thread
  <2>2. Sound(t, "idle", 0)
    BY <1>12, <1>t, <1>p, <1>h, <1>k, Moves DEF RefreshNotStored, Thread, Carrying, TypeOK, At
  <2> QED
    BY <1>p, <1>h, <1>k, <2>1, <2>2, NoIssueKeeps DEF Thread, Carrying
<1>13. ASSUME NEW t \in Caller \cup {"login"}, Fails(t) PROVE GatewayInv'
  <2>1. NoIssue /\ ClientTyped
    BY <1>13, <1>t, <1>p, <1>h, <1>r, <1>k DEF Fails, client, keychain, gateway, history, NoIssue, ClientTyped, TypeOK, Known, Thread
  <2>2. Sound(t, "idle", 0)
    BY <1>13, <1>t, <1>p, <1>h, <1>k, Moves DEF Fails, Thread, Carrying, TypeOK, At
  <2> QED
    BY <1>p, <1>h, <1>k, <2>1, <2>2, NoIssueKeeps DEF Thread, Carrying
<1>14. ASSUME PostLogin PROVE GatewayInv'
  <2>1. NoIssue /\ ClientTyped
    BY <1>14, <1>t, <1>p, <1>h, <1>r, <1>k DEF PostLogin, client, keychain, gateway, history, NoIssue, ClientTyped, TypeOK, Known, Thread
  <2>2. Sound("login", "posting", th["login"].token)
    BY <1>14, <1>t, <1>p, <1>h, <1>k, Moves DEF PostLogin, Thread, Carrying, TypeOK, At
  <2> QED
    BY <1>p, <1>h, <1>k, <2>1, <2>2, NoIssueKeeps DEF Thread, Carrying
<1>15. ASSUME LoggedIn PROVE GatewayInv'
  <2>1. NoIssue /\ ClientTyped
    BY <1>15, <1>t, <1>p, <1>h, <1>r, <1>k DEF LoggedIn, client, keychain, gateway, history, NoIssue, ClientTyped, TypeOK, Known, Thread
  <2>2. Sound("login", "idle", 0)
    BY <1>15, <1>t, <1>p, <1>h, <1>k, Moves DEF LoggedIn, Thread, Carrying, TypeOK, At
  <2> QED
    BY <1>p, <1>h, <1>k, <2>1, <2>2, NoIssueKeeps DEF Thread, Carrying
<1>16. ASSUME PostLogout PROVE GatewayInv'
  <2>1. NoIssue /\ ClientTyped
    BY <1>16, <1>t, <1>p, <1>h, <1>r, <1>k DEF PostLogout, client, keychain, gateway, history, NoIssue, ClientTyped, TypeOK, Known, Thread
  <2>2. Sound("logout", "leaving", refresh)
    BY <1>16, <1>t, <1>p, <1>h, <1>k, LogoutMoves DEF PostLogout, Thread, Carrying, TypeOK, At
  <2> QED
    BY <1>p, <1>h, <1>k, <2>1, <2>2, NoIssueKeeps DEF Thread, Carrying
<1>17. ASSUME Revoke PROVE GatewayInv'
  <2>1. NoIssue /\ ClientTyped
    BY <1>17, <1>t, <1>p, <1>h, <1>r, <1>k DEF Revoke, client, keychain, gateway, history, NoIssue, ClientTyped, TypeOK, Known, Thread
  <2>2. Sound("logout", "left", th["logout"].token)
    BY <1>17, <1>t, <1>p, <1>h, <1>k, Moves DEF Revoke, Thread, Carrying, TypeOK, At
  <2> QED
    BY <1>p, <1>h, <1>k, <2>1, <2>2, NoIssueKeeps DEF Thread, Carrying
<1>18. ASSUME NotRevoked PROVE GatewayInv'
  <2>1. NoIssue /\ ClientTyped
    BY <1>18, <1>t, <1>p, <1>h, <1>r, <1>k DEF NotRevoked, client, keychain, gateway, history, NoIssue, ClientTyped, TypeOK, Known, Thread
  <2>2. Sound("logout", "left", th["logout"].token)
    BY <1>18, <1>t, <1>p, <1>h, <1>k, Moves DEF NotRevoked, Thread, Carrying, TypeOK, At
  <2> QED
    BY <1>p, <1>h, <1>k, <2>1, <2>2, NoIssueKeeps DEF Thread, Carrying
<1>19. ASSUME ClearTokens PROVE GatewayInv'
  <2>1. NoIssue /\ ClientTyped
    BY <1>19, <1>t, <1>p, <1>h, <1>r, <1>k DEF ClearTokens, client, keychain, gateway, history, NoIssue, ClientTyped, TypeOK, Known, Thread
  <2>2. Sound("logout", "deleteA", th["logout"].token)
    BY <1>19, <1>t, <1>p, <1>h, <1>k, Moves DEF ClearTokens, Thread, Carrying, TypeOK, At
  <2> QED
    BY <1>p, <1>h, <1>k, <2>1, <2>2, NoIssueKeeps DEF Thread, Carrying
<1>20. ASSUME DeleteAccess PROVE GatewayInv'
  <2>1. NoIssue /\ ClientTyped
    BY <1>20, <1>t, <1>p, <1>h, <1>r, <1>k DEF DeleteAccess, client, keychain, gateway, history, NoIssue, ClientTyped, TypeOK, Known, Thread
  <2>2. Sound("logout", "deleteR", th["logout"].token)
    BY <1>20, <1>t, <1>p, <1>h, <1>k, Moves DEF DeleteAccess, Thread, Carrying, TypeOK, At
  <2> QED
    BY <1>p, <1>h, <1>k, <2>1, <2>2, NoIssueKeeps DEF Thread, Carrying
<1>21. ASSUME DeleteRefresh PROVE GatewayInv'
  <2>1. NoIssue /\ ClientTyped
    BY <1>21, <1>t, <1>p, <1>h, <1>r, <1>k DEF DeleteRefresh, client, keychain, gateway, history, NoIssue, ClientTyped, TypeOK, Known, Thread
  <2>2. Sound("logout", "idle", 0)
    BY <1>21, <1>t, <1>p, <1>h, <1>k, Moves DEF DeleteRefresh, Thread, Carrying, TypeOK, At
  <2> QED
    BY <1>p, <1>h, <1>k, <2>1, <2>2, NoIssueKeeps DEF Thread, Carrying
<1>22. ASSUME LoadAccess PROVE GatewayInv'
  <2>1. NoIssue /\ ClientTyped
    BY <1>22, <1>t, <1>p, <1>h, <1>r, <1>k DEF LoadAccess, client, keychain, gateway, history, NoIssue, ClientTyped, TypeOK, Known, Thread
  <2>2. Sound("boot", "loadedA", keyAccess) \/ Sound("boot", "loadedA", 0)
    BY <1>22, <1>t, <1>p, <1>h, <1>k, Moves, SessionAssumption DEF LoadAccess, Thread, TypeOK
  <2> QED
    BY <1>p, <1>h, <1>k, <2>1, <2>2, NoIssueKeeps DEF Thread
<1>23. ASSUME SetAccess PROVE GatewayInv'
  <2>1. NoIssue /\ ClientTyped
    BY <1>23, <1>t, <1>p, <1>h, <1>r, <1>k DEF SetAccess, client, keychain, gateway, history, NoIssue, ClientTyped, TypeOK, Known, Thread
  <2>2. Sound("boot", "loadR", 0)
    BY <1>23, <1>t, <1>p, <1>h, <1>k, Moves DEF SetAccess, Thread, Carrying, TypeOK, At
  <2> QED
    BY <1>p, <1>h, <1>k, <2>1, <2>2, NoIssueKeeps DEF Thread, Carrying
<1>24. ASSUME LoadRefresh PROVE GatewayInv'
  <2>1. NoIssue /\ ClientTyped
    BY <1>24, <1>t, <1>p, <1>h, <1>r, <1>k DEF LoadRefresh, client, keychain, gateway, history, NoIssue, ClientTyped, TypeOK, Known, Thread
  <2>2. Sound("boot", "loadedR", keyRefresh) \/ Sound("boot", "loadedR", 0)
    BY <1>24, <1>t, <1>p, <1>h, <1>k, Moves, SessionAssumption DEF LoadRefresh, Thread, TypeOK
  <2> QED
    BY <1>p, <1>h, <1>k, <2>1, <2>2, NoIssueKeeps DEF Thread
<1>25. ASSUME SetRefresh PROVE GatewayInv'
  <2>1. NoIssue /\ ClientTyped
    BY <1>25, <1>t, <1>p, <1>h, <1>r, <1>k DEF SetRefresh, client, keychain, gateway, history, NoIssue, ClientTyped, TypeOK, Known, Thread
  <2>2. Sound("boot", "idle", 0)
    BY <1>25, <1>t, <1>p, <1>h, <1>k, Moves DEF SetRefresh, Thread, Carrying, TypeOK, At
  <2> QED
    BY <1>p, <1>h, <1>k, <2>1, <2>2, NoIssueKeeps DEF Thread, Carrying
<1>26. ASSUME NEW c \in Caller, Grant(c) PROVE GatewayInv'
  <2>1. th[c].token \in live /\ live \subseteq 1..issued /\ ~th[c].again
    BY <1>26, <1>t DEF Grant, At, TypeOK
  <2>2. root[th[c].token] \in 1..(issued + 1)
    <3>1. issued \in Nat /\ root[th[c].token] \in 1..issued
      BY <1>l, <1>p, <2>1
    <3> QED
      BY <3>1
  <2>3. \A n \in live \ {th[c].token} : root[n] # root[th[c].token]
    BY <2>1 DEF GatewayInv, OneLivePerLogin
  <2> QED
    BY <1>26, <2>1, <2>2, <2>3, IssueKeeps DEF Grant
<1>27. ASSUME IssueLogin PROVE GatewayInv'
  <2>1. \A n \in live : root[n] # issued + 1
    BY <1>t, <1>p DEF TypeOK, Known
  <2>2. issued + 1 \in 1..(issued + 1)
    BY <1>p
  <2> QED
    BY <1>27, <2>1, <2>2, IssueKeeps DEF IssueLogin
<1>28. ASSUME Restart PROVE GatewayInv'
  <2>1. NoIssue /\ ClientTyped
    BY <1>28, <1>t, <1>p, <1>k, <1>l DEF Restart, client, keychain, gateway, NoIssue, ClientTyped, TypeOK, Known, Token
  <2>2. th' \in [Thread -> State] /\ \A t \in Thread : th'[t].at \in {"idle", "loadA"} /\ th'[t].token = 0
    BY <1>28, <1>p DEF Restart, Idle, Booting, State
  <2> QED
    BY <2>1, <2>2, NoIssueKeeps
<1>29. ASSUME NEW n \in Pair, Expire(n) PROVE GatewayInv'
  <2>1. NoIssue /\ ClientTyped /\ th' = th
    BY <1>29, <1>t, <1>p, <1>k DEF Expire, client, keychain, history, NoIssue, ClientTyped, TypeOK, Known, Token
  <2> QED
    BY <2>1, NoIssueKeeps
<1>30. ASSUME UNCHANGED vars PROVE GatewayInv'
  BY <1>30 DEF vars, client, keychain, gateway, history, GatewayInv, TypeOK, Known, OneLivePerLogin
<1> QED
  BY <1>1, <1>2, <1>3, <1>4, <1>5, <1>6, <1>7, <1>8, <1>9, <1>10, <1>11, <1>12, <1>13, <1>14, <1>15, <1>16, <1>17, <1>18, <1>19, <1>20, <1>21, <1>22, <1>23, <1>24, <1>25, <1>26, <1>27, <1>28, <1>29, <1>30 DEF Next, Request, Save
LEMMA GatewayInit == Init => GatewayInv
<1> SUFFICES ASSUME Init PROVE GatewayInv
  OBVIOUS
<1>1. th \in [Thread -> State] /\ \A t \in Thread : th[t].token = 0 /\ ~th[t].again
  <2>1. 0 \in Token /\ "idle" \in Place /\ "loadA" \in Place
    BY SessionAssumption DEF Token, Place
  <2>2. Idle \in State /\ Idle.token = 0 /\ ~Idle.again
    BY <2>1 DEF Idle, State
  <2>3. Booting \in State /\ Booting.token = 0 /\ ~Booting.again
    BY <2>1 DEF Idle, Booting, State
  <2> QED
    BY <2>2, <2>3 DEF Init
<1>2. TypeOK
  <2>1. 0 \in Token /\ root \in [Pair -> Token]
    BY SessionAssumption DEF Init, Token
  <2> QED
    BY <1>1, <2>1 DEF Init, TypeOK, Thread
<1>3. Known
  BY <1>1 DEF Init, Known
<1>4. OneLivePerLogin
  BY DEF Init, OneLivePerLogin
<1> QED
  BY <1>2, <1>3, <1>4 DEF GatewayInv

(***************************************************************************)
(* What the gateway keeps of a login holds in every behaviour, also when   *)
(* logins and logouts overlap with requests.                               *)
(***************************************************************************)
THEOREM GatewayInvariant == Spec => []GatewayInv
  BY GatewayInit, GatewayStep, PTL DEF Spec

(***************************************************************************)
(* The variables of client, keychain and gateway keep their types, and no  *)
(* request refreshes twice.                                                *)
(***************************************************************************)
THEOREM TypeCorrect == Spec => []TypeOK
<1>1. GatewayInv => TypeOK
  BY DEF GatewayInv
<1> QED
  BY <1>1, GatewayInvariant, PTL

(***************************************************************************)
(* A login has at most one refresh token the gateway honours.              *)
(***************************************************************************)
THEOREM OneHeir == Spec => []OneLivePerLogin
<1>1. GatewayInv => OneLivePerLogin
  BY DEF GatewayInv
<1> QED
  BY <1>1, GatewayInvariant, PTL
-----------------------------------------------------------------------------
(***************************************************************************)
(* The client.                                                             *)
(***************************************************************************)
Kept == InHand /\ BootKnows /\ Heir /\ Leaves /\ LiveTokenHeld /\ LogoutRevokes

\* Held, with what is in hands spelled out.
LEMMA InHandsAre ==
  /\ \A n : n \in InHands <=> \E t \in Thread : Carries(t) /\ th[t].token = n
  /\ \A n : n \in InHands' <=> \E t \in Thread : Carries(t)' /\ th'[t].token = n
  BY DEF InHands, Carries

\* What is in memory or in hands is known; a pair in hands is no older one.
LEMMA Tokens ==
  ASSUME IInv
  PROVE  /\ issued \in Nat /\ refresh \in 0..issued /\ live \subseteq 1..issued
         /\ signedOut \subseteq 1..issued
         /\ \A n \in 1..issued : root[n] \in 1..issued
         /\ \A t \in Thread : th[t] \in State /\ th[t].token \in 0..issued
  BY DEF IInv, GatewayInv, TypeOK, Known, Token, State

\* A step of a thread that neither takes up nor lays down a pair.
LEMMA QuietKeeps ==
  ASSUME IInv, NEW t \in Thread \ {"boot"}, NEW place, NEW n, Moved(t, place, n),
         Carries(t) <=> place \in Carrying, Carries(t) => n = th[t].token,
         place \notin {"asking", "leaving"},
         UNCHANGED <<refresh, live, root, left, signedOut, adrift, overlapped, displaced>>,
         keyRefresh' = keyRefresh \/ At("boot", "idle")
  PROVE  Kept'
<1>1. th'["boot"] = th["boot"]
  BY DEF Moved, Thread
<1>2. \A u \in Thread : (Carries(u)' <=> Carries(u)) /\ (Carries(u) => th'[u].token = th[u].token)
  BY DEF Moved, Carries
<1>3. InHand'
  <2>1. \A u \in Thread : th'[u].at \in {"asking", "leaving"} \cup Carrying =>
          th[u].at \in {"asking", "leaving"} \cup Carrying /\ th'[u].token = th[u].token
    BY DEF Moved, Carries
  <2> QED
    BY <1>2, <2>1 DEF IInv, ClientInv, InHand
<1>4. BootKnows'
  BY <1>1 DEF IInv, ClientInv, BootKnows, At
<1>5. Heir'
  BY <1>2 DEF IInv, ClientInv, Heir
<1>6. Leaves'
  <2>1. At("logout", "leaving")' => At("logout", "leaving") /\ th'["logout"] = th["logout"]
    BY DEF Moved, At, Thread
  <2> QED
    BY <2>1 DEF IInv, ClientInv, Leaves, RootOf
<1>7. LiveTokenHeld'
  <2>1. \A m : m \in InHands => m \in InHands'
    BY <1>2, InHandsAre
  <2> QED
    BY <1>1, <2>1 DEF IInv, LiveTokenHeld, Held, At
<1>8. LogoutRevokes'
  BY DEF IInv, LogoutRevokes
<1> QED
  BY <1>3, <1>4, <1>5, <1>6, <1>7, <1>8 DEF Kept

\* A thread that loses the pair it carries.
LEMMA LossKeeps ==
  ASSUME IInv, NEW t \in Caller \cup {"login"}, Carries(t), Moved(t, "idle", 0),
         adrift' = adrift \cup RootOf(th[t].token),
         UNCHANGED <<refresh, keyRefresh, live, root, left, signedOut, overlapped, displaced>>
  PROVE  Kept'
<1>1. t \in Thread /\ t # "boot" /\ t # "logout" /\ th'["boot"] = th["boot"] /\ th'["logout"] = th["logout"]
  BY SessionAssumption DEF Moved, Thread
<1>2. /\ \A u \in Thread : Carries(u)' => u # t /\ Carries(u) /\ th'[u] = th[u]
      /\ \A u \in Thread : Carries(u) => u = t \/ (Carries(u)' /\ th'[u] = th[u])
  BY DEF Moved, Carries, Carrying
<1>3. th[t].token \in live /\ th[t].token # 0 /\ root[th[t].token] \in adrift'
  BY <1>1, Tokens DEF IInv, ClientInv, InHand, RootOf
<1>4. InHand'
  <2>1. \A u \in Thread : th'[u].at \in {"asking", "leaving"} \cup Carrying => th'[u] = th[u]
    BY DEF Moved, Carrying
  <2> QED
    BY <1>2, <2>1 DEF IInv, ClientInv, InHand
<1>5. BootKnows'
  BY <1>1 DEF IInv, ClientInv, BootKnows, At
<1>6. Heir'
  BY <1>2, <1>3 DEF IInv, ClientInv, Heir
<1>7. Leaves'
  BY <1>1 DEF IInv, ClientInv, Leaves, RootOf, At
<1>8. LiveTokenHeld'
  <2>1. \A m : m \in InHands => m = th[t].token \/ m \in InHands'
    BY <1>2, InHandsAre
  <2> QED
    BY <1>1, <1>3, <2>1 DEF IInv, LiveTokenHeld, Held, At
<1>9. LogoutRevokes'
  BY DEF IInv, LogoutRevokes
<1> QED
  BY <1>4, <1>5, <1>6, <1>7, <1>8, <1>9 DEF Kept

\* A pair issued to the thread t, which carries none: nobody has heard of it.
LEMMA IssueMoves ==
  ASSUME TypeOK, NEW t \in Thread, NEW login, NEW rest, Issue(t, login, rest)
  PROVE  Moved(t, "granted", issued + 1)
<1>1. issued + 1 \in Token /\ "granted" \in Place
  BY SessionAssumption DEF TypeOK, Issue, Token, Place, Carrying
<1> QED
  BY <1>1, Moves DEF Issue

LEMMA Issued ==
  ASSUME IInv, NEW t \in Caller \cup {"login"}, ~Carries(t), NEW login \in 1..(issued + 1),
         NEW rest \in SUBSET live, Issue(t, login, rest),
         \A u \in Thread \ {t} : Carries(u) => th[u].token \in rest
  PROVE  /\ UNCHANGED <<refresh, keyRefresh, left, signedOut, adrift, displaced>>
         /\ live' = rest \cup {issued + 1} /\ root'[issued + 1] = login
         /\ \A n \in 1..issued : root'[n] = root[n]
         /\ Moved(t, "granted", issued + 1) /\ issued + 1 \in InHands'
         /\ \A n : n \in InHands => n \in InHands'
         /\ overlapped \subseteq overlapped'
         /\ At("logout", "leaving") => RootOf(th["logout"].token) \cap {login} \subseteq overlapped'
         /\ InHand'
<1>1. t \in Thread /\ t # "logout" /\ issued + 1 \in Pair
  BY SessionAssumption, Tokens DEF Thread, Issue, Pair
<1>2. Moved(t, "granted", issued + 1)
  BY <1>1, IssueMoves DEF IInv, GatewayInv
<1>3. /\ UNCHANGED <<refresh, keyRefresh, left, signedOut, adrift, displaced>>
      /\ live' = rest \cup {issued + 1} /\ root' = [root EXCEPT ![issued + 1] = login]
      /\ overlapped \subseteq overlapped'
      /\ At("logout", "leaving") => RootOf(th["logout"].token) \cap {login} \subseteq overlapped'
  BY DEF Issue, client, keychain
<1>4. root'[issued + 1] = login /\ \A n \in 1..issued : root'[n] = root[n]
  BY <1>1, <1>3, Tokens DEF IInv, GatewayInv, TypeOK
<1>5. /\ Carries(t)' /\ th'[t].token = issued + 1
      /\ \A u \in Thread \ {t} : th'[u] = th[u] /\ (Carries(u)' <=> Carries(u))
  BY <1>1, <1>2 DEF Moved, Carries, Carrying
<1>6. issued + 1 \in InHands' /\ \A n : n \in InHands => n \in InHands'
  BY <1>1, <1>5, InHandsAre
<1>7. InHand'
  <2>1. ASSUME NEW u \in Thread, Carries(u)'
        PROVE  /\ th'[u].token \in live' /\ th'[u].token # refresh'
               /\ \A v \in Thread \ {u} :
                    th'[v].at \in {"asking", "leaving"} \cup Carrying => th'[v].token # th'[u].token
    <3>1. CASE u = t
      <4>1. \A v \in Thread \ {t} : th'[v].token # issued + 1
        BY <1>5, Tokens
      <4> QED
        BY <1>3, <1>5, <3>1, <4>1, Tokens
    <3>2. CASE u # t
      <4>1. th'[u] = th[u] /\ Carries(u) /\ th[u].token # issued + 1
        BY <1>5, <2>1, <3>2, Tokens
      <4> QED
        BY <1>3, <1>5, <2>1, <3>2, <4>1 DEF IInv, ClientInv, InHand
    <3> QED
      BY <3>1, <3>2
  <2> QED
    BY <2>1 DEF InHand
<1> QED
  BY <1>2, <1>3, <1>4, <1>6, <1>7

\* It is the pair of a login that begins, or of a refresh, whose token it
\* replaces.
LEMMA IssuedKeeps ==
  ASSUME IInv, NEW t \in Caller \cup {"login"}, NEW login \in 1..(issued + 1),
         NEW rest \in SUBSET live, Issue(t, login, rest),
         \/ t = "login" /\ At(t, "posting") /\ login = issued + 1 /\ rest = live
         \/ /\ At(t, "asking") /\ th[t].token \in live
            /\ login = root[th[t].token] /\ rest = live \ {th[t].token}
  PROVE  Kept'
<1>1. At(t, "asking") \/ (t = "login" /\ At(t, "posting"))
  OBVIOUS
<1>2. /\ t \in Thread /\ t # "boot" /\ t # "logout" /\ ~Carries(t)
      /\ At("boot", "idle")
  BY <1>1, SessionAssumption DEF IInv, ClientInv, Exclusive, At, Carries, Carrying, Thread
<1>3. \A u \in Thread \ {t} : Carries(u) => th[u].token \in rest
  BY <1>2 DEF IInv, ClientInv, InHand, At
<1>4. /\ UNCHANGED <<refresh, keyRefresh, left, signedOut, adrift, displaced>>
      /\ live' = rest \cup {issued + 1} /\ root'[issued + 1] = login
      /\ \A n \in 1..issued : root'[n] = root[n]
      /\ Moved(t, "granted", issued + 1) /\ issued + 1 \in InHands'
      /\ \A n : n \in InHands => n \in InHands'
      /\ overlapped \subseteq overlapped'
      /\ At("logout", "leaving") => RootOf(th["logout"].token) \cap {login} \subseteq overlapped'
      /\ InHand'
  BY <1>2, <1>3, Issued
<1>5. At("boot", "idle")' /\ th'["logout"] = th["logout"]
  BY <1>2, <1>4 DEF Moved, At, Thread
<1>6. \A n \in live' : n = issued + 1 \/ (n \in live /\ root'[n] = root[n] /\ n \in 1..issued)
  BY <1>4, Tokens
<1>7. BootKnows'
  BY <1>5 DEF BootKnows, At
<1>8. Heir'
  <2>1. refresh # 0 => root'[refresh] = root[refresh]
    BY <1>4, Tokens
  <2>2. ASSUME NEW n \in live, n \in 1..issued, root'[n] = root[n], refresh # 0, root[n] = root[refresh]
        PROVE  n = refresh \/ root[n] \in adrift \/ n \in InHands'
    BY <1>4, <2>2, InHandsAre DEF IInv, ClientInv, Heir
  <2> QED
    BY <1>4, <1>6, <2>1, <2>2, InHandsAre DEF Heir
<1>9. Leaves'
  <2>1. th["logout"].token # 0 => root'[th["logout"].token] = root[th["logout"].token]
    BY <1>4, Tokens DEF Thread
  <2>2. At("logout", "leaving") /\ login \in RootOf(th["logout"].token) => login \in overlapped'
    BY <1>4
  <2> QED
    BY <1>4, <1>5, <1>6, <2>1, <2>2 DEF IInv, ClientInv, Leaves, At, RootOf
<1>10. LiveTokenHeld'
  BY <1>2, <1>4, <1>6 DEF IInv, LiveTokenHeld, Held, At
<1>11. LogoutRevokes'
  <2>1. login \in signedOut => login \in adrift \cup overlapped
    BY Tokens DEF IInv, LogoutRevokes
  <2> QED
    BY <1>4, <1>6, <2>1 DEF IInv, LogoutRevokes
<1> QED
  BY <1>4, <1>7, <1>8, <1>9, <1>10, <1>11 DEF Kept

LEMMA IssueLoginKeeps ==
  ASSUME IInv, IssueLogin
  PROVE  Kept'
<1>1. issued + 1 \in 1..(issued + 1) /\ live \in SUBSET live
  BY Tokens
<1>2. At("login", "posting") /\ Issue("login", issued + 1, live)
  BY DEF IssueLogin
<1> QED
  BY <1>1, <1>2, IssuedKeeps

LEMMA GrantKeeps ==
  ASSUME IInv, NEW c \in Caller, Grant(c)
  PROVE  Kept'
<1>1. /\ At(c, "asking") /\ th[c].token \in live
      /\ Issue(c, root[th[c].token], live \ {th[c].token})
  BY DEF Grant
<1>2. root[th[c].token] \in 1..(issued + 1)
  <2>1. root[th[c].token] \in 1..issued /\ issued \in Nat
    BY <1>1, Tokens
  <2> QED
    BY <2>1
<1> QED
  BY <1>1, <1>2, IssuedKeeps

\* A thread that puts the pair it carries into the client's memory.
LEMMA KeepRefreshKeeps ==
  ASSUME IInv, NEW t \in Caller \cup {"login"}, KeepRefresh(t)
  PROVE  Kept'
<1>1. t \in Thread /\ t # "boot" /\ t # "logout" /\ "storeR" \in Place /\ th[t].token \in Token
  BY SessionAssumption DEF Thread, Place, IInv, GatewayInv, TypeOK, State
<1>2. Moved(t, "storeR", th[t].token)
  BY <1>1, Moves DEF IInv, GatewayInv, KeepRefresh
<1>3. /\ refresh' = th[t].token /\ Carries(t) /\ At(t, "storedA")
      /\ left' = IF t = "login" THEN left \cup RootOf(refresh) ELSE left
      /\ displaced' = IF t = "login" THEN displaced
                      ELSE displaced \cup (RootOf(refresh) \ RootOf(th[t].token))
      /\ UNCHANGED <<keyRefresh, live, root, signedOut, adrift, overlapped>>
  BY DEF KeepRefresh, Replaces, keychain, gateway, At, Carries, Carrying
<1>4. th[t].token \in live /\ th[t].token # refresh /\ th[t].token # 0
  BY <1>1, <1>3, Tokens DEF IInv, ClientInv, InHand
<1>5. At("boot", "idle")
  BY <1>3 DEF IInv, ClientInv, Exclusive, At, Carrying
<1>6. /\ At("boot", "idle")' /\ th'["logout"] = th["logout"]
      /\ \A u \in Thread : Carries(u)' => u # t /\ Carries(u) /\ th'[u] = th[u]
      /\ \A u \in Thread : Carries(u) => u = t \/ (Carries(u)' /\ th'[u] = th[u])
  BY <1>1, <1>2, <1>5 DEF Moved, At, Carries, Carrying, Thread
<1>7. InHand'
  <2>1. \A u \in Thread : th'[u].at \in {"asking", "leaving"} \cup Carrying => th'[u] = th[u]
    BY <1>2 DEF Moved, Carrying
  <2>2. \A u \in Thread \ {t} : Carries(u) => th[u].token # th[t].token
    BY <1>1, <1>3 DEF IInv, ClientInv, InHand, Carries
  <2> QED
    BY <1>3, <1>6, <2>1, <2>2 DEF IInv, ClientInv, InHand
<1>8. BootKnows'
  BY <1>6 DEF BootKnows, At
<1>9. Heir'
  BY <1>3, <1>4 DEF IInv, GatewayInv, OneLivePerLogin, Heir
<1>10. Leaves'
  BY <1>3, <1>6 DEF IInv, ClientInv, Leaves, RootOf, At
<1>11. LiveTokenHeld'
  <2>1. \A n \in live : root[n] \in left \cup adrift \cup displaced \/ n = refresh \/ n \in InHands
    BY <1>5 DEF IInv, LiveTokenHeld, Held, At
  <2>2. \A n : n \in InHands => n = refresh' \/ n \in InHands'
    BY <1>3, <1>6, InHandsAre
  <2>3. refresh \in live => root[refresh] \in left' \cup displaced'
    <3>1. refresh \in live => refresh # 0 /\ root[refresh] # root[th[t].token]
      BY <1>4, Tokens DEF IInv, GatewayInv, OneLivePerLogin
    <3> QED
      BY <1>3, <3>1 DEF RootOf
  <2>4. left \subseteq left' /\ displaced \subseteq displaced'
    BY <1>3
  <2> QED
    BY <1>3, <2>1, <2>2, <2>3, <2>4 DEF LiveTokenHeld, Held
<1>12. LogoutRevokes'
  BY <1>3 DEF IInv, LogoutRevokes
<1> QED
  BY <1>7, <1>8, <1>9, <1>10, <1>11, <1>12 DEF Kept

LEMMA AskKeeps ==
  ASSUME IInv, NEW c \in Caller, Unauthorised(c)
  PROVE  Kept'
<1>1. c \in Thread /\ "idle" \in Place /\ 0 \in Token
  BY SessionAssumption DEF Thread, Place, Token
<1>2. Moved(c, "idle", 0) \/ Moved(c, "asking", refresh)
  BY <1>1, Moves, RequestMoves DEF IInv, GatewayInv, Unauthorised
<1>3. /\ UNCHANGED <<refresh, keyRefresh, live, root, left, signedOut, adrift, overlapped, displaced>>
      /\ c # "boot" /\ c # "logout" /\ ~Carries(c)
  BY SessionAssumption DEF Unauthorised, client, keychain, gateway, history, At, Carries, Carrying
<1>4. CASE Moved(c, "idle", 0)
  BY <1>1, <1>3, <1>4, QuietKeeps DEF Carrying
<1>5. CASE Moved(c, "asking", refresh)
  <2>1. /\ th'["boot"] = th["boot"] /\ th'["logout"] = th["logout"]
        /\ \A u \in Thread : (Carries(u)' <=> Carries(u)) /\ (Carries(u) => th'[u].token = th[u].token)
    BY <1>1, <1>3, <1>5 DEF Moved, Carries, Carrying, Thread
  <2>2. InHand'
    <3>1. \A u \in Thread : (u = c /\ th'[u].token = refresh) \/ th'[u] = th[u]
      BY <1>5 DEF Moved
    <3> QED
      BY <1>3, <2>1, <3>1 DEF IInv, ClientInv, InHand
  <2>3. BootKnows'
    BY <1>3, <2>1 DEF IInv, ClientInv, BootKnows, At
  <2>4. Heir'
    BY <1>3, <2>1 DEF IInv, ClientInv, Heir
  <2>5. Leaves'
    BY <1>3, <2>1 DEF IInv, ClientInv, Leaves, RootOf, At
  <2>6. LiveTokenHeld'
    <3>1. \A n : n \in InHands => n \in InHands'
      BY <2>1, InHandsAre
    <3> QED
      BY <1>3, <2>1, <3>1 DEF IInv, LiveTokenHeld, Held, At
  <2>7. LogoutRevokes'
    BY <1>3 DEF IInv, LogoutRevokes
  <2> QED
    BY <2>2, <2>3, <2>4, <2>5, <2>6, <2>7 DEF Kept
<1> QED
  BY <1>2, <1>4, <1>5

\* The logout takes the token in memory along, has it revoked, and clears the
\* memory.
LEMMA LogoutKeeps ==
  ASSUME IInv, PostLogout \/ Revoke \/ ClearTokens
  PROVE  Kept'
<1>1. "logout" \in Thread /\ {"left", "deleteA"} \subseteq Place /\ th["logout"].token \in Token
  BY DEF Thread, Place, IInv, GatewayInv, TypeOK, State
<1>2. \/ PostLogout /\ Moved("logout", "leaving", refresh)
      \/ Revoke /\ Moved("logout", "left", th["logout"].token)
      \/ ClearTokens /\ Moved("logout", "deleteA", th["logout"].token)
  BY <1>1, Moves, LogoutMoves DEF IInv, GatewayInv, Revoke, ClearTokens
<1>3. /\ th'["boot"] = th["boot"] /\ \A u \in Thread \ {"logout"} : th'[u] = th[u]
      /\ ~Carries("logout") /\ ~Carries("logout")'
  BY <1>1, <1>2 DEF Moved, Carries, Carrying, Thread, PostLogout, UserActs, Revoke, ClearTokens, At
<1>4. \A u \in Thread : (Carries(u)' <=> Carries(u)) /\ (Carries(u) => th'[u] = th[u])
  BY <1>3 DEF Carries
<1>5. \A n : n \in InHands <=> n \in InHands'
  BY <1>4, InHandsAre
<1>6. UNCHANGED <<keyRefresh, root, adrift, displaced>> /\ live' \subseteq live
  BY DEF PostLogout, Revoke, ClearTokens, client, keychain, gateway
<1>7. BootKnows'
  BY <1>3, <1>6 DEF IInv, ClientInv, BootKnows, At
<1>8. CASE PostLogout
  <2>1. /\ UNCHANGED <<refresh, live, left, signedOut>>
        /\ overlapped' = overlapped \cup (RootOf(refresh) \cap {root[n] : n \in InHands})
        /\ At("logout", "leaving")' /\ th'["logout"].token = refresh
    BY <1>2, <1>8 DEF PostLogout, client, gateway, Moved, At, Revoke, ClearTokens, UserActs
  <2>2. InHand'
    BY <1>3, <1>4, <2>1 DEF IInv, ClientInv, InHand
  <2>3. Leaves'
    BY <1>6, <2>1, InHandsAre DEF IInv, ClientInv, Heir, Leaves, RootOf
  <2>4. Heir' /\ LiveTokenHeld' /\ LogoutRevokes'
    BY <1>3, <1>4, <1>5, <1>6, <2>1 DEF IInv, ClientInv, Heir, LiveTokenHeld, Held, LogoutRevokes, At
  <2> QED
    BY <1>7, <2>2, <2>3, <2>4 DEF Kept
<1>9. CASE Revoke
  <2>1. /\ UNCHANGED <<refresh, left, overlapped>> /\ live' = live \ {th["logout"].token}
        /\ signedOut' = signedOut \cup RootOf(th["logout"].token)
        /\ At("logout", "leaving") /\ At("logout", "left")'
    BY <1>2, <1>9 DEF Revoke, client, Moved, At, PostLogout, ClearTokens, UserActs
  <2>2. InHand'
    <3>1. \A u \in Thread : Carries(u) => th[u].token # th["logout"].token
      BY <1>1, <1>3, <2>1 DEF IInv, ClientInv, InHand, At
    <3>2. \A u \in Thread : th'[u].at \in {"asking", "leaving"} \cup Carrying => th'[u] = th[u]
      BY <1>3, <2>1 DEF At, Carrying
    <3> QED
      BY <1>4, <2>1, <3>1, <3>2 DEF IInv, ClientInv, InHand
  <2>3. Leaves'
    BY <2>1 DEF Leaves, At
  <2>4. LogoutRevokes'
    BY <1>6, <2>1 DEF IInv, ClientInv, Leaves, LogoutRevokes
  <2>5. Heir' /\ LiveTokenHeld'
    BY <1>3, <1>4, <1>5, <1>6, <2>1 DEF IInv, ClientInv, Heir, LiveTokenHeld, Held, At
  <2> QED
    BY <1>7, <2>2, <2>3, <2>4, <2>5 DEF Kept
<1>10. CASE ClearTokens
  <2>1. /\ refresh' = 0 /\ left' = left \cup RootOf(refresh) /\ UNCHANGED <<live, signedOut, overlapped>>
        /\ At("logout", "deleteA")'
    BY <1>2, <1>10 DEF ClearTokens, gateway, Moved, At, PostLogout, Revoke, UserActs
  <2>2. \A n \in live : n # 0
    BY Tokens
  <2>3. InHand'
    <3>1. \A u \in Thread : th'[u].at \in {"asking", "leaving"} \cup Carrying => th'[u] = th[u]
      BY <1>3, <2>1 DEF At, Carrying
    <3> QED
      BY <1>4, <2>1, <2>2, <3>1 DEF IInv, ClientInv, InHand
  <2>4. LiveTokenHeld'
    BY <1>3, <1>5, <1>6, <2>1, <2>2 DEF IInv, LiveTokenHeld, Held, RootOf, At
  <2>5. Heir' /\ Leaves'
    BY <2>1 DEF Heir, Leaves, At
  <2>6. LogoutRevokes'
    BY <1>6, <2>1 DEF IInv, LogoutRevokes
  <2> QED
    BY <1>7, <2>3, <2>4, <2>5, <2>6 DEF Kept
<1> QED
  BY <1>8, <1>9, <1>10

\* While the keychain is read nothing is in memory, in hand or asked for.
LEMMA BootKeeps ==
  ASSUME IInv, LoadAccess \/ SetAccess \/ LoadRefresh \/ SetRefresh
  PROVE  Kept'
<1>1. /\ refresh = 0 /\ At("login", "idle") /\ At("logout", "idle")
      /\ \A c \in Caller : th[c].at \in {"idle", "sent"}
      /\ \A u \in Thread : ~Carries(u)
  <2>1. ~At("boot", "idle")
    BY DEF LoadAccess, SetAccess, LoadRefresh, SetRefresh, At
  <2>2. /\ refresh = 0 /\ At("login", "idle") /\ At("logout", "idle")
        /\ \A c \in Caller : th[c].at \in {"idle", "sent"}
    BY <2>1 DEF IInv, ClientInv, Exclusive
  <2>3. th["boot"].at \notin Carrying
    BY DEF IInv, ClientInv, Places, Carrying
  <2> QED
    BY <2>2, <2>3 DEF At, Carries, Carrying, Thread
<1>2. /\ "boot" \in Thread /\ {"loadedA", "loadR", "loadedR", "idle"} \subseteq Place
      /\ {0, keyAccess, keyRefresh} \subseteq Token
  BY SessionAssumption DEF Thread, Place, IInv, GatewayInv, TypeOK, Token
<1>3. \E place \in {"loadedA", "loadR", "loadedR", "idle"}, n \in Token : Moved("boot", place, n)
  BY <1>2, Moves DEF IInv, GatewayInv, LoadAccess, SetAccess, LoadRefresh, SetRefresh
<1>4. /\ At("logout", "idle")' /\ \A c \in Caller : th'[c].at \in {"idle", "sent"}
      /\ \A u \in Thread : ~Carries(u)'
  BY <1>1, <1>3, SessionAssumption DEF Moved, At, Carries, Carrying, Thread
<1>5. UNCHANGED <<keyRefresh, live, root, left, signedOut, overlapped, displaced>> /\ adrift \subseteq adrift'
  BY DEF LoadAccess, SetAccess, LoadRefresh, SetRefresh, client, keychain, gateway, history
<1>6. InHand' /\ Leaves'
  BY <1>4 DEF InHand, Leaves, At
<1>7. LogoutRevokes'
  BY <1>5 DEF IInv, LogoutRevokes
<1>8. CASE LoadAccess \/ SetAccess
  <2>1. /\ refresh' = 0 /\ adrift' = adrift /\ th["boot"].at \in {"loadA", "loadedA"}
        /\ th'["boot"].at \in {"loadedA", "loadR"}
    BY <1>1, <1>2, <1>8, Moves DEF IInv, GatewayInv, LoadAccess, SetAccess, Moved, client, history, At
  <2>2. BootKnows'
    BY <1>5, <2>1 DEF IInv, ClientInv, BootKnows, At
  <2>3. LiveTokenHeld'
    BY <1>5, <2>1, <2>2 DEF LiveTokenHeld, Held, BootKnows
  <2>4. Heir'
    BY <2>1 DEF Heir
  <2> QED
    BY <1>6, <1>7, <2>2, <2>3, <2>4 DEF Kept
<1>9. CASE LoadRefresh
  <2>1. /\ refresh' = 0 /\ At("boot", "loadR") /\ At("boot", "loadedR")'
        /\ \/ th'["boot"].token = keyRefresh
           \/ adrift' = adrift \cup RootOf(keyRefresh)
    BY <1>1, <1>2, <1>9, Moves DEF IInv, GatewayInv, LoadRefresh, Moved, client, At
  <2>2. \A n \in live : n = keyRefresh \/ root[n] \in adrift
    BY <2>1 DEF IInv, ClientInv, BootKnows, At
  <2>3. \A n \in live : n # 0
    BY DEF IInv, GatewayInv, TypeOK
  <2>4. \A n \in live' : n = th'["boot"].token \/ root'[n] \in adrift'
    BY <1>5, <2>1, <2>2, <2>3 DEF RootOf
  <2>5. BootKnows'
    BY <2>1, <2>4 DEF BootKnows, At
  <2>6. LiveTokenHeld'
    BY <2>1, <2>4 DEF LiveTokenHeld, Held
  <2>7. Heir'
    BY <2>1 DEF Heir
  <2> QED
    BY <1>6, <1>7, <2>5, <2>6, <2>7 DEF Kept
<1>10. CASE SetRefresh
  <2>1. /\ refresh' = th["boot"].token /\ adrift' = adrift /\ At("boot", "loadedR") /\ At("boot", "idle")'
    BY <1>2, <1>10, Moves DEF IInv, GatewayInv, SetRefresh, Moved, history, At
  <2>2. \A n \in live' : n = refresh' \/ root'[n] \in adrift'
    BY <1>5, <2>1 DEF IInv, ClientInv, BootKnows
  <2>3. BootKnows'
    BY <2>1 DEF BootKnows, At
  <2> QED
    BY <1>6, <1>7, <2>2, <2>3 DEF Kept, Heir, LiveTokenHeld, Held
<1> QED
  BY <1>8, <1>9, <1>10

LEMMA RestartKeeps ==
  ASSUME IInv, Restart
  PROVE  Kept' /\ Places' /\ Exclusive'
<1>1. /\ At("boot", "loadA")' /\ \A u \in Thread \ {"boot"} : At(u, "idle")'
      /\ \A u \in Thread : ~Carries(u)'
  <2>1. "boot" \in Thread /\ Idle.at = "idle" /\ Booting.at = "loadA"
    BY DEF Thread, Idle, Booting
  <2>2. \A u \in Thread : th'[u] = IF u = "boot" THEN Booting ELSE Idle
    BY DEF Restart
  <2> QED
    BY <2>1, <2>2 DEF At, Carries, Carrying
<1>2. /\ refresh' = 0 /\ adrift' = adrift \cup {root[n] : n \in live \ {keyRefresh}}
      /\ UNCHANGED <<keyRefresh, live, root, left, signedOut, overlapped, displaced>>
  BY DEF Restart, keychain, gateway
<1>3. /\ At("login", "idle")' /\ At("logout", "idle")' /\ \A c \in Caller : At(c, "idle")'
  BY <1>1, SessionAssumption DEF Thread
<1>4. InHand' /\ Leaves'
  BY <1>1, <1>3 DEF InHand, Leaves, At
<1>5. \A n \in live' : n = keyRefresh' \/ root'[n] \in adrift'
  BY <1>2
<1>6. BootKnows' /\ Heir' /\ LiveTokenHeld'
  BY <1>1, <1>2, <1>5 DEF BootKnows, Heir, LiveTokenHeld, Held, At
<1>7. LogoutRevokes'
  BY <1>2 DEF IInv, LogoutRevokes
<1>8. Places' /\ Exclusive'
  BY <1>1, <1>2, <1>3 DEF Places, Exclusive, At
<1> QED
  BY <1>4, <1>6, <1>7, <1>8 DEF Kept

LEMMA StillKeeps ==
  ASSUME IInv, UNCHANGED <<th, refresh, keyRefresh, live, root, left, signedOut, adrift, overlapped, displaced>>
  PROVE  Kept' /\ Places' /\ Exclusive'
<1>1. Places' /\ Exclusive'
  BY DEF IInv, ClientInv, Places, Exclusive, At
<1>2. InHand' /\ Leaves'
  BY DEF IInv, ClientInv, InHand, Leaves, RootOf, At, Carries
<1>3. BootKnows' /\ Heir'
  BY DEF IInv, ClientInv, BootKnows, Heir, At, Carries
<1>4. LiveTokenHeld' /\ LogoutRevokes'
  BY DEF IInv, LiveTokenHeld, Held, InHands, LogoutRevokes, At
<1> QED
  BY <1>1, <1>2, <1>3, <1>4 DEF Kept

\* A thread moves to a place its kind may be in. While the keychain is read, no
\* login or logout starts, no request asks for a pair, and refresh stays 0.
LEMMA PlacesKeep ==
  ASSUME IInv, NEW t \in Thread, NEW place, NEW n, Moved(t, place, n),
         t \in Caller => place \in {"idle", "sent", "asking", "storeR", "storedR"} \cup Carrying,
         t = "login" => place \in {"idle", "posting", "storeR", "storedR"} \cup Carrying,
         t = "logout" => place \in {"idle", "leaving", "left", "deleteA", "deleteR"},
         t = "boot" => place \in {"idle", "loadedA", "loadR", "loadedR"}
  PROVE  Places'
<1> USE SessionAssumption DEF Moved, Thread
<1>1. \A c \in Caller : th'[c].at \in {"idle", "sent", "asking", "storeR", "storedR"} \cup Carrying
  BY DEF IInv, ClientInv, Places
<1>2. th'["login"].at \in {"idle", "posting", "storeR", "storedR"} \cup Carrying
  BY DEF IInv, ClientInv, Places
<1>3. th'["logout"].at \in {"idle", "leaving", "left", "deleteA", "deleteR"}
  BY DEF IInv, ClientInv, Places
<1>4. th'["boot"].at \in {"idle", "loadA", "loadedA", "loadR", "loadedR"}
  BY DEF IInv, ClientInv, Places
<1> QED
  BY <1>1, <1>2, <1>3, <1>4 DEF Places

LEMMA ExclusiveKeep ==
  ASSUME IInv, NEW t \in Thread, NEW place, NEW n, Moved(t, place, n),
         refresh' # refresh => refresh' = 0 \/ At("boot", "idle") \/ (t = "boot" /\ place = "idle"),
         At(t, "idle") /\ place # "idle" => t # "boot" /\ (t \notin Caller => At("boot", "idle")),
         t \in Caller => At("boot", "idle") \/ place \in {"idle", "sent"}
  PROVE  Exclusive'
  BY SessionAssumption DEF Moved, Thread, At, IInv, ClientInv, Exclusive

LEMMA ClientStep == IInv /\ [Next]_vars => Kept' /\ Places' /\ Exclusive'
<1> SUFFICES ASSUME IInv, [Next]_vars PROVE Kept' /\ Places' /\ Exclusive'
  OBVIOUS
<1>t. TypeOK
  BY DEF IInv, GatewayInv
<1>p. /\ {"idle", "sent", "asking", "posting", "leaving", "left", "deleteA", "deleteR"} \subseteq Place
      /\ {"loadA", "loadedA", "loadR", "loadedR", "storeR", "storedR"} \cup Carrying \subseteq Place
      /\ Carrying = {"granted", "storeA", "storedA"} /\ 0 \in Token
  BY <1>t, SessionAssumption DEF Place, Carrying, TypeOK, Token
<1>h. /\ \A t \in Thread : th[t] \in State /\ th[t].token \in Token
      /\ refresh \in Token /\ keyAccess \in Token /\ keyRefresh \in Token
  BY <1>t DEF TypeOK, State
<1>c. /\ \A c \in Caller : c \in Thread /\ c \notin {"login", "logout", "boot"}
      /\ {"login", "logout", "boot"} \subseteq Thread
  BY SessionAssumption DEF Thread
<1>x. /\ ~At("boot", "idle") => refresh = 0
      /\ \A c \in Caller : th[c].at \notin {"idle", "sent"} => At("boot", "idle")
      /\ ~At("login", "idle") \/ ~At("logout", "idle") => At("boot", "idle")
  BY DEF IInv, ClientInv, Exclusive, At
<1>1. ASSUME NEW c \in Caller, Start(c) PROVE Kept' /\ Places' /\ Exclusive'
  <2>1. Moved(c, "sent", th[c].token)
    BY <1>1, <1>t, <1>p, <1>h, <1>c, RequestMoves DEF Start
  <2>2. Kept'
    BY <1>1, <1>p, <1>c, <1>x, <2>1, QuietKeeps DEF Start, UserActs, Carries, client, keychain, gateway, history, At
  <2>3. Places'
    BY <1>p, <1>c, <2>1, PlacesKeep
  <2>4. Exclusive'
    BY <1>1, <1>p, <1>c, <1>x, <2>1, ExclusiveKeep DEF Start, UserActs, IInv, ClientInv, Places, Issue, client, keychain, gateway, history, At
  <2> QED
    BY <2>2, <2>3, <2>4
<1>2. ASSUME NEW c \in Caller, Answered(c) PROVE Kept' /\ Places' /\ Exclusive'
  <2>1. Moved(c, "idle", 0)
    BY <1>2, <1>t, <1>p, <1>h, <1>c, Moves DEF Answered
  <2>2. Kept'
    BY <1>2, <1>p, <1>c, <1>x, <2>1, QuietKeeps DEF Answered, UserActs, Carries, client, keychain, gateway, history, At
  <2>3. Places'
    BY <1>p, <1>c, <2>1, PlacesKeep
  <2>4. Exclusive'
    BY <1>2, <1>p, <1>c, <1>x, <2>1, ExclusiveKeep DEF Answered, UserActs, IInv, ClientInv, Places, Issue, client, keychain, gateway, history, At
  <2> QED
    BY <2>2, <2>3, <2>4
<1>3. ASSUME NEW c \in Caller, Unauthorised(c) PROVE Kept' /\ Places' /\ Exclusive'
  <2>1. (Moved(c, "idle", 0) \/ Moved(c, "asking", refresh)) /\ At(c, "sent") /\ refresh' = refresh
    BY <1>3, <1>t, <1>p, <1>h, <1>c, Moves, RequestMoves DEF Unauthorised, client
  <2>2. Kept'
    BY <1>3, AskKeeps
  <2>3. Places'
    BY <2>1, <1>c, PlacesKeep
  <2>4. Exclusive'
    <3>1. At("boot", "idle") \/ Moved(c, "idle", 0)
      BY <1>3, <1>t, <1>p, <1>h, <1>c, <1>x, Moves DEF Unauthorised
    <3> QED
      BY <2>1, <3>1, <1>c, <1>x, ExclusiveKeep DEF At
  <2> QED
    BY <2>2, <2>3, <2>4
<1>4. ASSUME NEW c \in Caller, Grant(c) PROVE Kept' /\ Places' /\ Exclusive'
  <2>1. Moved(c, "granted", issued + 1)
    BY <1>4, <1>t, <1>p, <1>h, <1>c, Moves, IssueMoves DEF Grant
  <2>2. Kept'
    BY <1>4, GrantKeeps
  <2>3. Places'
    BY <1>p, <1>c, <2>1, PlacesKeep
  <2>4. Exclusive'
    BY <1>4, <1>p, <1>c, <1>x, <2>1, ExclusiveKeep DEF Grant, UserActs, IInv, ClientInv, Places, Issue, client, keychain, gateway, history, At
  <2> QED
    BY <2>2, <2>3, <2>4
<1>5. ASSUME NEW c \in Caller, Refuse(c) PROVE Kept' /\ Places' /\ Exclusive'
  <2>1. Moved(c, "idle", 0)
    BY <1>5, <1>t, <1>p, <1>h, <1>c, Moves DEF Refuse
  <2>2. Kept'
    BY <1>5, <1>p, <1>c, <1>x, <2>1, QuietKeeps DEF Refuse, UserActs, Carries, client, keychain, gateway, history, At
  <2>3. Places'
    BY <1>p, <1>c, <2>1, PlacesKeep
  <2>4. Exclusive'
    BY <1>5, <1>p, <1>c, <1>x, <2>1, ExclusiveKeep DEF Refuse, UserActs, IInv, ClientInv, Places, Issue, client, keychain, gateway, history, At
  <2> QED
    BY <2>2, <2>3, <2>4
<1>6. ASSUME NEW c \in Caller, Resend(c) PROVE Kept' /\ Places' /\ Exclusive'
  <2>1. Moved(c, "sent", 0)
    BY <1>6, <1>t, <1>p, <1>h, <1>c, RequestMoves DEF Resend
  <2>2. Kept'
    BY <1>6, <1>p, <1>c, <1>x, <2>1, QuietKeeps DEF Resend, UserActs, Carries, client, keychain, gateway, history, At
  <2>3. Places'
    BY <1>p, <1>c, <2>1, PlacesKeep
  <2>4. Exclusive'
    BY <1>6, <1>p, <1>c, <1>x, <2>1, ExclusiveKeep DEF Resend, UserActs, IInv, ClientInv, Places, Issue, client, keychain, gateway, history, At
  <2> QED
    BY <2>2, <2>3, <2>4
<1>7. ASSUME NEW t \in Caller \cup {"login"}, Receive(t) PROVE Kept' /\ Places' /\ Exclusive'
  <2>1. Moved(t, "storeA", th[t].token)
    BY <1>7, <1>t, <1>p, <1>h, <1>c, Moves DEF Receive
  <2>2. Kept'
    BY <1>7, <1>p, <1>c, <1>x, <2>1, QuietKeeps DEF Receive, UserActs, Carries, client, keychain, gateway, history, At
  <2>3. Places'
    BY <1>p, <1>c, <2>1, PlacesKeep
  <2>4. Exclusive'
    BY <1>7, <1>p, <1>c, <1>x, <2>1, ExclusiveKeep DEF Receive, UserActs, IInv, ClientInv, Places, Issue, client, keychain, gateway, history, At
  <2> QED
    BY <2>2, <2>3, <2>4
<1>8. ASSUME NEW t \in Caller \cup {"login"}, AnswerLost(t) PROVE Kept' /\ Places' /\ Exclusive'
  <2>1. Moved(t, "idle", 0)
    BY <1>8, <1>t, <1>p, <1>h, <1>c, Moves DEF AnswerLost
  <2>2. Kept'
    BY <1>8, <1>p, <1>c, <2>1, LossKeeps DEF AnswerLost, Carries, client, keychain, gateway, history, At
  <2>3. Places'
    BY <1>p, <1>c, <2>1, PlacesKeep
  <2>4. Exclusive'
    BY <1>8, <1>p, <1>c, <1>x, <2>1, ExclusiveKeep DEF AnswerLost, UserActs, IInv, ClientInv, Places, Issue, client, keychain, gateway, history, At
  <2> QED
    BY <2>2, <2>3, <2>4
<1>9. ASSUME NEW t \in Caller \cup {"login"}, StoreAccess(t) PROVE Kept' /\ Places' /\ Exclusive'
  <2>1. Moved(t, "storedA", th[t].token)
    BY <1>9, <1>t, <1>p, <1>h, <1>c, Moves DEF StoreAccess
  <2>2. Kept'
    BY <1>9, <1>p, <1>c, <1>x, <2>1, QuietKeeps DEF StoreAccess, UserActs, Carries, client, keychain, gateway, history, At
  <2>3. Places'
    BY <1>p, <1>c, <2>1, PlacesKeep
  <2>4. Exclusive'
    BY <1>9, <1>p, <1>c, <1>x, <2>1, ExclusiveKeep DEF StoreAccess, UserActs, IInv, ClientInv, Places, Issue, client, keychain, gateway, history, At
  <2> QED
    BY <2>2, <2>3, <2>4
<1>10. ASSUME NEW t \in Caller \cup {"login"}, AccessNotStored(t) PROVE Kept' /\ Places' /\ Exclusive'
  <2>1. Moved(t, "idle", 0)
    BY <1>10, <1>t, <1>p, <1>h, <1>c, Moves DEF AccessNotStored
  <2>2. Kept'
    BY <1>10, <1>p, <1>c, <2>1, LossKeeps DEF AccessNotStored, Carries, client, keychain, gateway, history, At
  <2>3. Places'
    BY <1>p, <1>c, <2>1, PlacesKeep
  <2>4. Exclusive'
    BY <1>10, <1>p, <1>c, <1>x, <2>1, ExclusiveKeep DEF AccessNotStored, UserActs, IInv, ClientInv, Places, Issue, client, keychain, gateway, history, At
  <2> QED
    BY <2>2, <2>3, <2>4
<1>11. ASSUME NEW t \in Caller \cup {"login"}, KeepRefresh(t) PROVE Kept' /\ Places' /\ Exclusive'
  <2>1. Moved(t, "storeR", th[t].token)
    BY <1>11, <1>t, <1>p, <1>h, <1>c, Moves DEF KeepRefresh
  <2>2. Kept'
    BY <1>11, KeepRefreshKeeps
  <2>3. Places'
    BY <1>p, <1>c, <2>1, PlacesKeep
  <2>4. Exclusive'
    BY <1>11, <1>p, <1>c, <1>x, <2>1, ExclusiveKeep DEF KeepRefresh, UserActs, IInv, ClientInv, Places, Issue, client, keychain, gateway, history, At
  <2> QED
    BY <2>2, <2>3, <2>4
<1>12. ASSUME NEW t \in Caller \cup {"login"}, StoreRefresh(t) PROVE Kept' /\ Places' /\ Exclusive'
  <2>1. Moved(t, "storedR", th[t].token)
    BY <1>12, <1>t, <1>p, <1>h, <1>c, Moves DEF StoreRefresh
  <2>2. Kept'
    BY <1>12, <1>p, <1>c, <1>x, <2>1, QuietKeeps DEF StoreRefresh, UserActs, Carries, client, keychain, gateway, history, At
  <2>3. Places'
    BY <1>p, <1>c, <2>1, PlacesKeep
  <2>4. Exclusive'
    BY <1>12, <1>p, <1>c, <1>x, <2>1, ExclusiveKeep DEF StoreRefresh, UserActs, IInv, ClientInv, Places, Issue, client, keychain, gateway, history, At
  <2> QED
    BY <2>2, <2>3, <2>4
<1>13. ASSUME NEW t \in Caller \cup {"login"}, RefreshNotStored(t) PROVE Kept' /\ Places' /\ Exclusive'
  <2>1. Moved(t, "idle", 0)
    BY <1>13, <1>t, <1>p, <1>h, <1>c, Moves DEF RefreshNotStored
  <2>2. Kept'
    BY <1>13, <1>p, <1>c, <1>x, <2>1, QuietKeeps DEF RefreshNotStored, UserActs, Carries, client, keychain, gateway, history, At
  <2>3. Places'
    BY <1>p, <1>c, <2>1, PlacesKeep
  <2>4. Exclusive'
    BY <1>13, <1>p, <1>c, <1>x, <2>1, ExclusiveKeep DEF RefreshNotStored, UserActs, IInv, ClientInv, Places, Issue, client, keychain, gateway, history, At
  <2> QED
    BY <2>2, <2>3, <2>4
<1>14. ASSUME NEW t \in Caller \cup {"login"}, Fails(t) PROVE Kept' /\ Places' /\ Exclusive'
  <2>1. Moved(t, "idle", 0)
    BY <1>14, <1>t, <1>p, <1>h, <1>c, Moves DEF Fails
  <2>2. Kept'
    BY <1>14, <1>p, <1>c, <1>x, <2>1, QuietKeeps DEF Fails, UserActs, Carries, client, keychain, gateway, history, At
  <2>3. Places'
    BY <1>p, <1>c, <2>1, PlacesKeep
  <2>4. Exclusive'
    BY <1>14, <1>p, <1>c, <1>x, <2>1, ExclusiveKeep DEF Fails, UserActs, IInv, ClientInv, Places, Issue, client, keychain, gateway, history, At
  <2> QED
    BY <2>2, <2>3, <2>4
<1>15. ASSUME PostLogin PROVE Kept' /\ Places' /\ Exclusive'
  <2>1. Moved("login", "posting", th["login"].token)
    BY <1>15, <1>t, <1>p, <1>h, <1>c, Moves DEF PostLogin
  <2>2. Kept'
    BY <1>15, <1>p, <1>c, <1>x, <2>1, QuietKeeps DEF PostLogin, UserActs, Carries, client, keychain, gateway, history, At
  <2>3. Places'
    BY <1>p, <1>c, <2>1, PlacesKeep
  <2>4. Exclusive'
    BY <1>15, <1>p, <1>c, <1>x, <2>1, ExclusiveKeep DEF PostLogin, UserActs, IInv, ClientInv, Places, Issue, client, keychain, gateway, history, At
  <2> QED
    BY <2>2, <2>3, <2>4
<1>16. ASSUME IssueLogin PROVE Kept' /\ Places' /\ Exclusive'
  <2>1. Moved("login", "granted", issued + 1)
    BY <1>16, <1>t, <1>p, <1>h, <1>c, Moves, IssueMoves DEF IssueLogin
  <2>2. Kept'
    BY <1>16, IssueLoginKeeps
  <2>3. Places'
    BY <1>p, <1>c, <2>1, PlacesKeep
  <2>4. Exclusive'
    BY <1>16, <1>p, <1>c, <1>x, <2>1, ExclusiveKeep DEF IssueLogin, UserActs, IInv, ClientInv, Places, Issue, client, keychain, gateway, history, At
  <2> QED
    BY <2>2, <2>3, <2>4
<1>17. ASSUME LoggedIn PROVE Kept' /\ Places' /\ Exclusive'
  <2>1. Moved("login", "idle", 0)
    BY <1>17, <1>t, <1>p, <1>h, <1>c, Moves DEF LoggedIn
  <2>2. Kept'
    BY <1>17, <1>p, <1>c, <1>x, <2>1, QuietKeeps DEF LoggedIn, UserActs, Carries, client, keychain, gateway, history, At
  <2>3. Places'
    BY <1>p, <1>c, <2>1, PlacesKeep
  <2>4. Exclusive'
    BY <1>17, <1>p, <1>c, <1>x, <2>1, ExclusiveKeep DEF LoggedIn, UserActs, IInv, ClientInv, Places, Issue, client, keychain, gateway, history, At
  <2> QED
    BY <2>2, <2>3, <2>4
<1>18. ASSUME PostLogout PROVE Kept' /\ Places' /\ Exclusive'
  <2>1. Moved("logout", "leaving", refresh)
    BY <1>18, <1>t, <1>p, <1>h, <1>c, LogoutMoves DEF PostLogout
  <2>2. Kept'
    BY <1>18, LogoutKeeps
  <2>3. Places'
    BY <1>p, <1>c, <2>1, PlacesKeep
  <2>4. Exclusive'
    BY <1>18, <1>p, <1>c, <1>x, <2>1, ExclusiveKeep DEF PostLogout, UserActs, IInv, ClientInv, Places, Issue, client, keychain, gateway, history, At
  <2> QED
    BY <2>2, <2>3, <2>4
<1>19. ASSUME Revoke PROVE Kept' /\ Places' /\ Exclusive'
  <2>1. Moved("logout", "left", th["logout"].token)
    BY <1>19, <1>t, <1>p, <1>h, <1>c, Moves DEF Revoke
  <2>2. Kept'
    BY <1>19, LogoutKeeps
  <2>3. Places'
    BY <1>p, <1>c, <2>1, PlacesKeep
  <2>4. Exclusive'
    BY <1>19, <1>p, <1>c, <1>x, <2>1, ExclusiveKeep DEF Revoke, UserActs, IInv, ClientInv, Places, Issue, client, keychain, gateway, history, At
  <2> QED
    BY <2>2, <2>3, <2>4
<1>20. ASSUME NotRevoked PROVE Kept' /\ Places' /\ Exclusive'
  <2>1. Moved("logout", "left", th["logout"].token)
    BY <1>20, <1>t, <1>p, <1>h, <1>c, Moves DEF NotRevoked
  <2>2. Kept'
    BY <1>20, <1>p, <1>c, <1>x, <2>1, QuietKeeps DEF NotRevoked, UserActs, Carries, client, keychain, gateway, history, At
  <2>3. Places'
    BY <1>p, <1>c, <2>1, PlacesKeep
  <2>4. Exclusive'
    BY <1>20, <1>p, <1>c, <1>x, <2>1, ExclusiveKeep DEF NotRevoked, UserActs, IInv, ClientInv, Places, Issue, client, keychain, gateway, history, At
  <2> QED
    BY <2>2, <2>3, <2>4
<1>21. ASSUME ClearTokens PROVE Kept' /\ Places' /\ Exclusive'
  <2>1. Moved("logout", "deleteA", th["logout"].token)
    BY <1>21, <1>t, <1>p, <1>h, <1>c, Moves DEF ClearTokens
  <2>2. Kept'
    BY <1>21, LogoutKeeps
  <2>3. Places'
    BY <1>p, <1>c, <2>1, PlacesKeep
  <2>4. Exclusive'
    BY <1>21, <1>p, <1>c, <1>x, <2>1, ExclusiveKeep DEF ClearTokens, UserActs, IInv, ClientInv, Places, Issue, client, keychain, gateway, history, At
  <2> QED
    BY <2>2, <2>3, <2>4
<1>22. ASSUME DeleteAccess PROVE Kept' /\ Places' /\ Exclusive'
  <2>1. Moved("logout", "deleteR", th["logout"].token)
    BY <1>22, <1>t, <1>p, <1>h, <1>c, Moves DEF DeleteAccess
  <2>2. Kept'
    BY <1>22, <1>p, <1>c, <1>x, <2>1, QuietKeeps DEF DeleteAccess, UserActs, Carries, client, keychain, gateway, history, At
  <2>3. Places'
    BY <1>p, <1>c, <2>1, PlacesKeep
  <2>4. Exclusive'
    BY <1>22, <1>p, <1>c, <1>x, <2>1, ExclusiveKeep DEF DeleteAccess, UserActs, IInv, ClientInv, Places, Issue, client, keychain, gateway, history, At
  <2> QED
    BY <2>2, <2>3, <2>4
<1>23. ASSUME DeleteRefresh PROVE Kept' /\ Places' /\ Exclusive'
  <2>1. Moved("logout", "idle", 0)
    BY <1>23, <1>t, <1>p, <1>h, <1>c, Moves DEF DeleteRefresh
  <2>2. Kept'
    BY <1>23, <1>p, <1>c, <1>x, <2>1, QuietKeeps DEF DeleteRefresh, UserActs, Carries, client, keychain, gateway, history, At
  <2>3. Places'
    BY <1>p, <1>c, <2>1, PlacesKeep
  <2>4. Exclusive'
    BY <1>23, <1>p, <1>c, <1>x, <2>1, ExclusiveKeep DEF DeleteRefresh, UserActs, IInv, ClientInv, Places, Issue, client, keychain, gateway, history, At
  <2> QED
    BY <2>2, <2>3, <2>4
<1>24. ASSUME LoadAccess PROVE Kept' /\ Places' /\ Exclusive'
  <2>1. \E n \in Token : Moved("boot", "loadedA", n)
    BY <1>24, <1>t, <1>p, <1>h, <1>c, Moves DEF LoadAccess
  <2>2. Kept'
    BY <1>24, BootKeeps
  <2>3. Places'
    BY <1>p, <1>c, <2>1, PlacesKeep
  <2>4. Exclusive'
    BY <1>24, <1>p, <1>c, <1>x, <2>1, ExclusiveKeep DEF LoadAccess, UserActs, IInv, ClientInv, Places, Issue, client, keychain, gateway, history, At
  <2> QED
    BY <2>2, <2>3, <2>4
<1>25. ASSUME SetAccess PROVE Kept' /\ Places' /\ Exclusive'
  <2>1. Moved("boot", "loadR", 0)
    BY <1>25, <1>t, <1>p, <1>h, <1>c, Moves DEF SetAccess
  <2>2. Kept'
    BY <1>25, BootKeeps
  <2>3. Places'
    BY <1>p, <1>c, <2>1, PlacesKeep
  <2>4. Exclusive'
    BY <1>25, <1>p, <1>c, <1>x, <2>1, ExclusiveKeep DEF SetAccess, UserActs, IInv, ClientInv, Places, Issue, client, keychain, gateway, history, At
  <2> QED
    BY <2>2, <2>3, <2>4
<1>26. ASSUME LoadRefresh PROVE Kept' /\ Places' /\ Exclusive'
  <2>1. \E n \in Token : Moved("boot", "loadedR", n)
    BY <1>26, <1>t, <1>p, <1>h, <1>c, Moves DEF LoadRefresh
  <2>2. Kept'
    BY <1>26, BootKeeps
  <2>3. Places'
    BY <1>p, <1>c, <2>1, PlacesKeep
  <2>4. Exclusive'
    BY <1>26, <1>p, <1>c, <1>x, <2>1, ExclusiveKeep DEF LoadRefresh, UserActs, IInv, ClientInv, Places, Issue, client, keychain, gateway, history, At
  <2> QED
    BY <2>2, <2>3, <2>4
<1>27. ASSUME SetRefresh PROVE Kept' /\ Places' /\ Exclusive'
  <2>1. Moved("boot", "idle", 0)
    BY <1>27, <1>t, <1>p, <1>h, <1>c, Moves DEF SetRefresh
  <2>2. Kept'
    BY <1>27, BootKeeps
  <2>3. Places'
    BY <1>p, <1>c, <2>1, PlacesKeep
  <2>4. Exclusive'
    BY <1>27, <1>p, <1>c, <1>x, <2>1, ExclusiveKeep DEF SetRefresh, UserActs, IInv, ClientInv, Places, Issue, client, keychain, gateway, history, At
  <2> QED
    BY <2>2, <2>3, <2>4
<1>28. ASSUME Restart PROVE Kept' /\ Places' /\ Exclusive'
  BY <1>28, RestartKeeps
<1>29. ASSUME NEW n \in Pair, Expire(n) PROVE Kept' /\ Places' /\ Exclusive'
  BY <1>29, StillKeeps DEF Expire, client, keychain, history
<1>30. ASSUME UNCHANGED vars PROVE Kept' /\ Places' /\ Exclusive'
  BY <1>30, StillKeeps DEF vars, client, keychain, gateway, history
<1> QED
  BY <1>1, <1>2, <1>3, <1>4, <1>5, <1>6, <1>7, <1>8, <1>9, <1>10, <1>11, <1>12, <1>13, <1>14, <1>15, <1>16, <1>17, <1>18, <1>19, <1>20, <1>21, <1>22, <1>23, <1>24, <1>25, <1>26, <1>27, <1>28, <1>29, <1>30 DEF Next, Request, Save

LEMMA ClientInit == Init => IInv
<1> SUFFICES ASSUME Init PROVE IInv
  OBVIOUS
<1>1. At("boot", "loadA") /\ \A t \in Thread \ {"boot"} : At(t, "idle")
  <2>1. "boot" \in Thread /\ Idle.at = "idle" /\ Booting.at = "loadA"
    BY DEF Thread, Idle, Booting
  <2> QED
    BY <2>1 DEF Init, At
<1>2. At("login", "idle") /\ At("logout", "idle") /\ \A c \in Caller : At(c, "idle")
  BY <1>1, SessionAssumption DEF Thread
<1>3. Places /\ Exclusive
  BY <1>1, <1>2 DEF Init, Places, Exclusive, At
<1>4. InHand
  BY <1>1, <1>2 DEF InHand, Carries, Carrying, At, Thread
<1>5. BootKnows /\ Heir /\ Leaves /\ LiveTokenHeld /\ LogoutRevokes
  BY <1>2 DEF Init, BootKnows, Heir, Leaves, LiveTokenHeld, LogoutRevokes, At
<1> QED
  BY <1>3, <1>4, <1>5, GatewayInit DEF IInv, ClientInv

(***************************************************************************)
(* The inductive invariant of client and gateway together.                 *)
(***************************************************************************)
THEOREM Invariant == Spec => []IInv
<1>1. IInv /\ [Next]_vars => IInv'
  BY GatewayStep, ClientStep DEF IInv, ClientInv, Kept
<1> QED
  BY <1>1, ClientInit, PTL DEF Spec

(***************************************************************************)
(* The client holds the live refresh token of the login it has not left,   *)
(* however many requests refresh at the same time, unless it was lost or   *)
(* another login's refresh, still in flight, replaced it.                  *)
(***************************************************************************)
THEOREM LiveHeld == Spec => []LiveTokenHeld
<1>1. IInv => LiveTokenHeld
  BY DEF IInv
<1> QED
  BY <1>1, Invariant, PTL

(***************************************************************************)
(* A logout the gateway accepted leaves no live refresh token of its login *)
(* behind, with any number of requests in flight, unless one was lost      *)
(* before or its refresh and the logout overlapped.                        *)
(***************************************************************************)
THEOREM Revokes == Spec => []LogoutRevokes
<1>1. IInv => LogoutRevokes
  BY DEF IInv
<1> QED
  BY <1>1, Invariant, PTL
=============================================================================
