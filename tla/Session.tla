------------------------------ MODULE Session ------------------------------
(***************************************************************************)
(* The signed-in session: the tokens the gateway client of the harness     *)
(* holds in memory and in the keychain (packages/harness/src/gateway/),    *)
(* and the refresh tokens the gateway honours (apps/gateway/src/auth/ and  *)
(* routes/auth.ts).                                                        *)
(*                                                                         *)
(* A login or a refresh issues a pair of tokens; pairs are numbered in the *)
(* order of their issue and a token is named by its pair, 0 for none. Any  *)
(* number of requests may be in flight. A thread is one of them, or the    *)
(* login, the logout or the reading of the keychain at the start, between  *)
(* two of its awaits. A write to the keychain runs as a process of its     *)
(* own: it takes effect first, and its thread resumes later.               *)
(***************************************************************************)
EXTENDS Integers

CONSTANTS
  Caller,     \* bound: requests in flight at a time
  MaxPairs    \* bound: pairs issued in a behaviour

ASSUME SessionAssumption ==
  /\ MaxPairs \in Nat \ {0}
  /\ Caller \cap {"login", "logout", "boot"} = {}

Thread == Caller \cup {"login", "logout", "boot"}
Pair == 1..MaxPairs
Token == 0..MaxPairs

\* Where a thread waits: for the answer of a gateway, for the keychain's
\* process, or to be resumed after it.
Carrying == {"granted", "storeA", "storedA"}
Place == {"idle", "sent", "asking", "posting", "leaving", "left", "deleteA", "deleteR",
          "loadA", "loadedA", "loadR", "loadedR", "storeR", "storedR"} \cup Carrying

\* access is the access token the request was sent with, token the refresh
\* token or the pair in hand, again whether the request was sent twice.
State == [at : Place, access : Token, token : Token, again : BOOLEAN]
Idle == [at |-> "idle", access |-> 0, token |-> 0, again |-> FALSE]
Booting == [Idle EXCEPT !.at = "loadA"]

VARIABLES
  access, refresh,       \* memory: the tokens of the client
  loginState,            \* memory: what the panel is told
  th,                    \* memory: the threads
  keyAccess, keyRefresh, \* keychain
  issued,                \* gateway: the last pair issued
  fresh,                 \* gateway: the pairs whose access token has not expired
  live,                  \* gateway: the pairs whose refresh token is honoured
  root,                  \* history: the login each pair goes back to
  left,                  \* history: the logins the user left, by a logout or a new login
  signedOut,             \* history: the logins whose logout the gateway accepted
  adrift,                \* history: the logins of pairs that were lost on their way
  overlapped,            \* history: the logins refreshed while their logout was under way
  displaced,             \* history: the logins whose pair another login's refresh replaced
  out                    \* history: a logout returned and no login or start followed

client == <<access, refresh, loginState>>
keychain == <<keyAccess, keyRefresh>>
gateway == <<issued, fresh, live, root>>
history == <<left, signedOut, adrift, overlapped, displaced, out>>
vars == <<client, th, keychain, gateway, history>>

TypeOK ==
  /\ access \in Token /\ refresh \in Token
  /\ loginState \in {"anon", "logged_in"}
  /\ th \in [Thread -> State]
  /\ \A c \in Caller : th[c].at \in {"asking"} \cup Carrying => ~th[c].again
  /\ keyAccess \in Token /\ keyRefresh \in Token
  /\ issued \in Token
  /\ fresh \in SUBSET (1..issued) /\ live \in SUBSET (1..issued)
  /\ root \in [Pair -> Token]
  /\ left \in SUBSET Token /\ signedOut \in SUBSET Token /\ adrift \in SUBSET Token
  /\ overlapped \in SUBSET Token /\ displaced \in SUBSET Token
  /\ out \in BOOLEAN

\* The first start: an empty keychain.
Init ==
  /\ access = 0 /\ refresh = 0 /\ loginState = "anon"
  /\ th = [t \in Thread |-> IF t = "boot" THEN Booting ELSE Idle]
  /\ keyAccess = 0 /\ keyRefresh = 0
  /\ issued = 0 /\ fresh = {} /\ live = {}
  /\ root = [n \in Pair |-> 0]
  /\ left = {} /\ signedOut = {} /\ adrift = {} /\ overlapped = {} /\ displaced = {}
  /\ out = FALSE

RootOf(n) == IF n = 0 THEN {} ELSE {root[n]}

At(t, place) == th[t].at = place
Goes(t, place) == th' = [th EXCEPT ![t].at = place]
Takes(t, place, n) == th' = [th EXCEPT ![t].at = place, ![t].token = n]
Returns(t) == th' = [th EXCEPT ![t] = Idle]

\* The pairs in the hands of threads that have not put them into memory yet.
InHands == {th[t].token : t \in {u \in Thread : th[u].at \in Carrying}}

\* The user acts when the keychain has been read (a bound: nothing waits for
\* it), and logs in or out once at a time. Requests may be in flight.
UserActs == At("boot", "idle") /\ At("login", "idle") /\ At("logout", "idle")
-----------------------------------------------------------------------------
(***************************************************************************)
(* A request: postJson() and chatStream(). After a 401 the tokens are      *)
(* refreshed and the request is sent once more.                            *)
(***************************************************************************)
Start(c) ==
  /\ At(c, "idle")
  /\ th' = [th EXCEPT ![c].at = "sent", ![c].access = access]
  /\ UNCHANGED <<client, keychain, gateway, history>>

\* Any answer but a 401, or none: the request is over.
Answered(c) ==
  /\ At(c, "sent")
  /\ Returns(c)
  /\ UNCHANGED <<client, keychain, gateway, history>>

Asks(c) == th' = [th EXCEPT ![c] = [Idle EXCEPT !.at = "asking", !.token = refresh]]

Unauthorised(c) ==
  /\ At(c, "sent") /\ th[c].access \notin fresh
  /\ IF th[c].again \/ refresh = 0 THEN Returns(c) ELSE Asks(c)
  /\ UNCHANGED <<client, keychain, gateway, history>>

(***************************************************************************)
(* refresh(), whose request the gateway answers with a new pair, revoking  *)
(* the token it was asked with, or refuses.                                *)
(***************************************************************************)
Issue(t, login, rest) ==
  /\ issued < MaxPairs
  /\ issued' = issued + 1
  /\ fresh' = fresh \cup {issued + 1}
  /\ live' = rest \cup {issued + 1}
  /\ root' = [root EXCEPT ![issued + 1] = login]
  /\ Takes(t, "granted", issued + 1)
  /\ overlapped' = IF At("logout", "leaving")
                   THEN overlapped \cup (RootOf(th["logout"].token) \cap {login})
                   ELSE overlapped
  /\ UNCHANGED <<client, keychain, left, signedOut, adrift, displaced, out>>

GrantKeepingOld(c) ==
  /\ At(c, "asking") /\ th[c].token \in live
  /\ Issue(c, root[th[c].token], live)

Grant(c) ==
  /\ At(c, "asking") /\ th[c].token \in live
  /\ Issue(c, root[th[c].token], live \ {th[c].token})

Refuse(c) ==
  /\ At(c, "asking") /\ th[c].token \notin live
  /\ Returns(c)
  /\ UNCHANGED <<client, keychain, gateway, history>>

\* The connection fails, before the gateway saw the request or after it
\* answered it: then the client never learns of the pair that was issued.
Fails(t) ==
  /\ \/ t \in Caller /\ At(t, "asking")
     \/ t = "login" /\ At(t, "posting")
  /\ Returns(t)
  /\ UNCHANGED <<client, keychain, gateway, history>>

AnswerLost(t) ==
  /\ At(t, "granted")
  /\ Returns(t)
  /\ adrift' = adrift \cup RootOf(th[t].token)
  /\ UNCHANGED <<client, keychain, gateway, left, signedOut, overlapped, displaced, out>>
-----------------------------------------------------------------------------
(***************************************************************************)
(* saveTokens(): the access token in memory, then in the keychain, then    *)
(* the refresh token. A keychain that refuses makes it throw.              *)
(***************************************************************************)
Receive(t) ==
  /\ At(t, "granted")
  /\ access' = th[t].token
  /\ Goes(t, "storeA")
  /\ UNCHANGED <<refresh, loginState, keychain, gateway, history>>

StoreAccess(t) ==
  /\ At(t, "storeA")
  /\ keyAccess' = th[t].token
  /\ Goes(t, "storedA")
  /\ UNCHANGED <<client, keyRefresh, gateway, history>>

AccessNotStored(t) ==
  /\ At(t, "storeA")
  /\ Returns(t)
  /\ adrift' = adrift \cup RootOf(th[t].token)
  /\ UNCHANGED <<client, keychain, gateway, left, signedOut, overlapped, displaced, out>>

\* The user leaves the login in memory for a new one; a refresh may bring back
\* an older one.
Replaces(t) ==
  /\ left' = IF t = "login" THEN left \cup RootOf(refresh) ELSE left
  /\ displaced' = IF t = "login" THEN displaced
                  ELSE displaced \cup (RootOf(refresh) \ RootOf(th[t].token))

KeepFirstRefresh(t) ==
  /\ At(t, "storedA")
  /\ refresh' = IF refresh = 0 THEN th[t].token ELSE refresh
  /\ Goes(t, "storeR")
  /\ Replaces(t)
  /\ UNCHANGED <<access, loginState, keychain, gateway, signedOut, adrift, overlapped, out>>

KeepRefresh(t) ==
  /\ At(t, "storedA")
  /\ refresh' = th[t].token
  /\ Goes(t, "storeR")
  /\ Replaces(t)
  /\ UNCHANGED <<access, loginState, keychain, gateway, signedOut, adrift, overlapped, out>>

StoreRefresh(t) ==
  /\ At(t, "storeR")
  /\ keyRefresh' = th[t].token
  /\ Goes(t, "storedR")
  /\ UNCHANGED <<client, keyAccess, gateway, history>>

RefreshNotStored(t) ==
  /\ At(t, "storeR")
  /\ Returns(t)
  /\ UNCHANGED <<client, keychain, gateway, history>>

\* The request is sent again, with the access token the client has by now.
Resend(c) ==
  /\ At(c, "storedR")
  /\ th' = [th EXCEPT ![c] = [at |-> "sent", access |-> access, token |-> 0, again |-> TRUE]]
  /\ UNCHANGED <<client, keychain, gateway, history>>
-----------------------------------------------------------------------------
\* LOGIN_SUBMIT, from the login page, which an anonymous panel shows.
PostLogin ==
  /\ loginState = "anon" /\ UserActs
  /\ Goes("login", "posting")
  /\ out' = FALSE
  /\ UNCHANGED <<client, keychain, gateway, left, signedOut, adrift, overlapped, displaced>>

IssueLogin == At("login", "posting") /\ Issue("login", issued + 1, live)

LoggedIn ==
  /\ At("login", "storedR")
  /\ loginState' = "logged_in"
  /\ Returns("login")
  /\ UNCHANGED <<access, refresh, keychain, gateway, history>>

\* LOGOUT. The gateway revokes the refresh token if the access token is
\* still good; whatever it answers, the client forgets its tokens.
PostLogout ==
  /\ loginState = "logged_in" /\ UserActs
  /\ th' = [th EXCEPT !["logout"] = [Idle EXCEPT !.at = "leaving", !.access = access, !.token = refresh]]
  /\ overlapped' = overlapped \cup (RootOf(refresh) \cap {root[n] : n \in InHands})
  /\ UNCHANGED <<client, keychain, gateway, left, signedOut, adrift, displaced, out>>

Revoke ==
  /\ At("logout", "leaving") /\ th["logout"].access \in fresh
  /\ live' = live \ {th["logout"].token}
  /\ signedOut' = signedOut \cup RootOf(th["logout"].token)
  /\ Goes("logout", "left")
  /\ UNCHANGED <<client, keychain, issued, fresh, root, left, adrift, overlapped, displaced, out>>

NotRevoked ==
  /\ At("logout", "leaving")
  /\ Goes("logout", "left")
  /\ UNCHANGED <<client, keychain, gateway, history>>

ClearTokens ==
  /\ At("logout", "left")
  /\ access' = 0 /\ refresh' = 0
  /\ left' = left \cup RootOf(refresh)
  /\ Goes("logout", "deleteA")
  /\ UNCHANGED <<loginState, keychain, gateway, signedOut, adrift, overlapped, displaced, out>>

DeleteAccess ==
  /\ At("logout", "deleteA")
  /\ keyAccess' = 0
  /\ Goes("logout", "deleteR")
  /\ UNCHANGED <<client, keyRefresh, gateway, history>>

DeleteRefresh ==
  /\ At("logout", "deleteR")
  /\ keyRefresh' = 0
  /\ loginState' = "anon"
  /\ out' = TRUE
  /\ Returns("logout")
  /\ UNCHANGED <<access, refresh, keyAccess, gateway, left, signedOut, adrift, overlapped, displaced>>
-----------------------------------------------------------------------------
(***************************************************************************)
(* loadTokens(), at the start. A keychain that refuses gives no token.     *)
(***************************************************************************)
LoadAccess ==
  /\ At("boot", "loadA")
  /\ \E n \in {keyAccess, 0} : Takes("boot", "loadedA", n)
  /\ UNCHANGED <<client, keychain, gateway, history>>

SetAccess ==
  /\ At("boot", "loadedA")
  /\ access' = th["boot"].token
  /\ Takes("boot", "loadR", 0)
  /\ UNCHANGED <<refresh, loginState, keychain, gateway, history>>

LoadRefresh ==
  /\ At("boot", "loadR")
  /\ \/ Takes("boot", "loadedR", keyRefresh) /\ UNCHANGED adrift
     \/ Takes("boot", "loadedR", 0) /\ adrift' = adrift \cup RootOf(keyRefresh)
  /\ UNCHANGED <<client, keychain, gateway, left, signedOut, overlapped, displaced, out>>

SetRefresh ==
  /\ At("boot", "loadedR")
  /\ refresh' = th["boot"].token
  /\ loginState' = IF access = 0 THEN loginState ELSE "logged_in"
  /\ Returns("boot")
  /\ UNCHANGED <<access, keychain, gateway, history>>

\* The harness dies and is started again.
Restart ==
  /\ access' = 0 /\ refresh' = 0 /\ loginState' = "anon"
  /\ th' = [t \in Thread |-> IF t = "boot" THEN Booting ELSE Idle]
  /\ adrift' = adrift \cup {root[n] : n \in live \ {keyRefresh}}
  /\ out' = FALSE
  /\ UNCHANGED <<keychain, gateway, left, signedOut, overlapped, displaced>>

\* An access token is good for a quarter of an hour.
Expire(n) ==
  /\ n \in fresh
  /\ fresh' = fresh \ {n}
  /\ UNCHANGED <<client, th, keychain, issued, live, root, history>>

Save(t) ==
  \/ Receive(t) \/ AnswerLost(t)
  \/ StoreAccess(t) \/ AccessNotStored(t)
  \/ KeepRefresh(t)
  \/ StoreRefresh(t) \/ RefreshNotStored(t)

Request(c) ==
  \/ Start(c) \/ Answered(c) \/ Unauthorised(c)
  \/ Grant(c) \/ Refuse(c) \/ Resend(c)

Next ==
  \/ \E c \in Caller : Request(c)
  \/ \E t \in Caller \cup {"login"} : Save(t) \/ Fails(t)
  \/ PostLogin \/ IssueLogin \/ LoggedIn
  \/ PostLogout \/ Revoke \/ NotRevoked \/ ClearTokens \/ DeleteAccess \/ DeleteRefresh
  \/ LoadAccess \/ SetAccess \/ LoadRefresh \/ SetRefresh
  \/ Restart
  \/ \E n \in Pair : Expire(n)

Spec == Init /\ [][Next]_vars
-----------------------------------------------------------------------------
(***************************************************************************)
(* A login has one heir: of all the pairs that go back to one login, the   *)
(* gateway honours the refresh token of at most one, however requests      *)
(* repeat a refresh, answers get lost or the client restarts.              *)
(***************************************************************************)
OneLivePerLogin ==
  \A m, n \in live : root[m] = root[n] => m = n

(***************************************************************************)
(* The client keeps the heir: while the user has not left it and no answer *)
(* or keychain failed, the refresh token the gateway honours is the one in *)
(* memory, or in the hands of the one thread that is about to put it there *)
(* - unless the refresh of a login the user left came back after the next  *)
(* login and replaced it. Requests that refresh at the same time never     *)
(* lose it among themselves.                                               *)
(***************************************************************************)
Held(n) ==
  \/ n = refresh
  \/ n \in InHands
  \/ th["boot"].at \in {"loadA", "loadedA", "loadR"} /\ n = keyRefresh
  \/ At("boot", "loadedR") /\ n = th["boot"].token

LiveTokenHeld ==
  \A n \in live : root[n] \in left \cup adrift \cup displaced \/ Held(n)

(***************************************************************************)
(* A logout the gateway accepted ends the session, however many requests   *)
(* are in flight: no refresh token that goes back to that login is         *)
(* honoured again, unless one was lost before, or its refresh was answered *)
(* and not yet in memory when the logout was sent, or answered before it.  *)
(***************************************************************************)
LogoutRevokes ==
  \A n \in live : root[n] \in signedOut => root[n] \in adrift \cup overlapped

(***************************************************************************)
(* The gateway's logout "revokes the jti of that refresh". That it ends    *)
(* the session does not hold (SessionLogout.cfg): saveTokens() puts the    *)
(* access token into memory before it waits for the keychain and the       *)
(* refresh token after it, so a LOGOUT in between is accepted, revokes the *)
(* rotated token and leaves the new one honoured.                          *)
(***************************************************************************)
LogoutEnds ==
  \A n \in live : root[n] \in signedOut => root[n] \in adrift

(***************************************************************************)
(* "Even when the gateway cannot be reached, log out locally", says the    *)
(* comment in logout(): once it has returned, and until the next login or  *)
(* start, the client holds no token. This does not hold (SessionRace.cfg): *)
(* a refresh in flight brings one back.                                    *)
(***************************************************************************)
LogoutForgets == out => access = 0 /\ refresh = 0
=============================================================================
