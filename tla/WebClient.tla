------------------------------ MODULE WebClient ------------------------------
(***************************************************************************)
(* The session of the web app: apiClient.ts (the interceptors that refresh *)
(* an expired access token and replay the request), authStorage.ts (what   *)
(* is kept in localStorage) and AuthContext.tsx (who the screens show),    *)
(* composed with the sessions of the server as SessionChain promises them. *)
(*                                                                         *)
(* A tab is one run of the app; its steps are turns of its event loop, and *)
(* all tabs share localStorage but nothing else.  A pair (access and       *)
(* refresh token) is named by its refresh token.  The user a session       *)
(* belongs to is named by the session, so that every sign-in is told from  *)
(* every other one.  A response may be lost and a tab may be reloaded at   *)
(* any time.                                                               *)
(***************************************************************************)
EXTENDS Naturals, FiniteSets

CONSTANTS
  Tabs, Calls,       \* the tabs of one browser; the API calls in flight at once
  Sessions, Tokens,  \* of the server
  None,
  MaxReloads         \* bound on the reloads of a tab

ASSUME BoundsAssumption == MaxReloads \in Nat

\* What a refresh is answered when it brings no token is no token.
ASSUME NamesAssumption ==
  /\ None \notin Tokens \cup Sessions \cup Tabs
  /\ {"denied", "failed", "replay"} \cap (Tokens \cup {None}) = {}

VARIABLES
  status, live, issued,  \* the server: see SessionChain
  stale,    \* the pairs whose access token has expired
  storage,  \* localStorage: a pair and the user it is said to belong to
  tab,      \* of each tab: the user shown, isLoading, the refresh in flight
  call,     \* the calls of the app
  reloads,  \* how often some tab was reloaded
  blame,    \* what went on that the client has no answer to
  dropped   \* why the client gave up sessions that were open, and "replay"
            \* when it presented a spent token of an open session

chainVars == <<status, live, issued>>
clientVars == <<storage, tab, call>>
history == <<reloads, blame, dropped>>
vars == <<status, live, issued, stale, storage, tab, call, reloads, blame, dropped>>

Chain == INSTANCE SessionChain

-----------------------------------------------------------------------------
(* State *)

NoRefresh == [pc |-> "none", tok |-> None, answer |-> None]
NoCall == [pc |-> "idle", tab |-> None, op |-> "data", pair |-> None,
           retried |-> FALSE, answer |-> None]
Empty == [pair |-> None, user |-> None]

Init ==
  /\ Chain!Init
  /\ stale = {}
  /\ storage = Empty
  /\ tab = [t \in Tabs |-> [user |-> None, loading |-> FALSE, refresh |-> NoRefresh]]
  /\ call = [c \in Calls |-> NoCall]
  /\ reloads = 0
  /\ blame = {}
  /\ dropped = {}

Owner(p) == IF p = None THEN None ELSE issued[p]

Blame(what, happened) == blame' = IF happened THEN blame \cup {what} ELSE blame

\* What a tab leaves behind when it forgets the session.
Forget(t) ==
  /\ storage' = Empty
  /\ tab' = [tab EXCEPT ![t].user = None, ![t].loading = FALSE, ![t].refresh = NoRefresh]

ClearSession(t) ==
  /\ storage' = Empty
  /\ tab' = [tab EXCEPT ![t].user = None, ![t].loading = FALSE]

\* clearSession on anything but a sign-out: the session s was found to be gone.
GiveUp(s, why) ==
  /\ dropped' = IF storage.pair # None /\ status[Owner(storage.pair)] = "open"
                THEN dropped \cup {why} ELSE dropped
  /\ Blame("late", storage.pair # None /\ Owner(storage.pair) # s)

-----------------------------------------------------------------------------
(* The app: sign-in, calls, sign-out *)

\* What ProtectedRoute lets the user see.
Shown(t) == tab[t].user # None /\ ~tab[t].loading

\* The request interceptor attaches the stored token, whoever's it is by now.
Send(t, op) ==
  [NoCall EXCEPT !.pc = "sent", !.tab = t, !.op = op, !.pair = storage.pair]

\* A screen calls the API, the profile re-reads the user, or the user signs out.
StartCall(t, c, op) ==
  /\ Shown(t)
  /\ call[c].pc = "idle"
  /\ call' = [call EXCEPT ![c] = Send(t, op)]
  /\ UNCHANGED <<chainVars, stale, storage, tab, history>>

\* The server has opened s for a login, an accepted invitation or a registration
\* and answers with its first pair.
SignIn(t, s, p) ==
  /\ \A q \in Tokens : issued[q] # s
  /\ Chain!Extend(s, p)
  /\ storage' = [pair |-> p, user |-> s]
  /\ tab' = [tab EXCEPT ![t].user = s, ![t].loading = FALSE]
  /\ UNCHANGED <<stale, call, history>>

\* A tab starts anew from localStorage and asks the server who its user is.
Reload(t, c) ==
  /\ reloads < MaxReloads
  /\ reloads' = reloads + 1
  /\ LET kept == [b \in Calls |-> IF call[b].tab = t THEN NoCall ELSE call[b]]
     IN  /\ kept[c].pc = "idle"
         /\ tab' = [tab EXCEPT ![t] =
              [user |-> IF storage.pair # None THEN storage.user ELSE None,
               loading |-> storage.pair # None,
               refresh |-> NoRefresh]]
         /\ call' = IF storage.pair = None THEN kept
                    ELSE [kept EXCEPT ![c] = Send(t, "boot")]
  /\ Blame("reload", tab[t].refresh.pc # "none")
  /\ UNCHANGED <<chainVars, stale, storage, dropped>>

-----------------------------------------------------------------------------
(* What becomes of a call *)

\* JwtStrategy lets the bearer of a pair in while its session is not ended.
Admitted(p) == p # None /\ p \notin stale /\ status[issued[p]] # "ended"

Answer(c, answer) ==
  call' = [call EXCEPT ![c].pc = "answered", ![c].answer = answer]

\* The handler runs (a logout ends the session), refuses, or the guard says 401.
ServerAnswers(c) ==
  /\ call[c].pc = "sent"
  /\ \/ /\ ~Admitted(call[c].pair)
        /\ Answer(c, "denied")
        /\ UNCHANGED chainVars
     \/ /\ Admitted(call[c].pair)
        /\ Answer(c, "failed")
        /\ UNCHANGED chainVars
     \/ /\ Admitted(call[c].pair)
        /\ Answer(c, "ok")
        /\ IF call[c].op = "logout" THEN Chain!End({issued[call[c].pair]})
           ELSE UNCHANGED chainVars
  /\ UNCHANGED <<stale, storage, tab, history>>

\* The request or its response is lost.
Lose(c) ==
  /\ call[c].pc \in {"sent", "answered"}
  /\ call[c].answer # "failed"
  /\ Answer(c, "failed")
  /\ UNCHANGED <<chainVars, stale, storage, tab, history>>

Settle(c) == call' = [call EXCEPT ![c] = NoCall]

\* The promise of the call is fulfilled: /auth/me writes the identity it brings.
Resolve(c) ==
  LET t == call[c].tab
      s == Owner(call[c].pair)
  IN  /\ call[c].pc = "answered" /\ call[c].answer = "ok"
      /\ Settle(c)
      /\ CASE call[c].op = "data" -> UNCHANGED <<storage, tab, blame>>
           [] call[c].op \in {"me", "boot"} ->
                /\ storage' = [storage EXCEPT !.user = s]
                /\ tab' = [tab EXCEPT ![t].user = s,
                                      ![t].loading = @ /\ call[c].op # "boot"]
                /\ Blame("late", Owner(storage.pair) # s)
           [] call[c].op = "logout" ->
                ClearSession(t) /\ UNCHANGED blame
      /\ UNCHANGED <<chainVars, stale, reloads, dropped>>

\* Mutant: the catch of signOut and of the boot do nothing.
RejectQuietly(c) ==
  /\ call[c].pc = "answered"
  /\ \/ call[c].answer = "failed"
     \/ call[c].answer = "denied" /\ call[c].retried
  /\ Settle(c)
  /\ UNCHANGED <<chainVars, stale, storage, tab, history>>

\* Any failure of a replayed request ends in the catch of the interceptor; one of
\* the boot call in the catch of AuthProvider; a sign-out is done in any case.
Reject(c) ==
  LET t == call[c].tab
      s == Owner(call[c].pair)
  IN  /\ call[c].pc = "answered"
      /\ \/ call[c].answer = "failed"
         \/ call[c].answer = "denied" /\ call[c].retried
      /\ Settle(c)
      /\ IF call[c].op \in {"boot", "logout"} \/ call[c].retried
         THEN /\ ClearSession(t)
              /\ IF call[c].op = "logout"
                 THEN UNCHANGED <<blame, dropped>>
                 ELSE GiveUp(s, call[c].answer)
         ELSE UNCHANGED <<storage, tab, blame, dropped>>
      /\ UNCHANGED <<chainVars, stale, reloads>>

\* A 401 with nothing stored to refresh with.
Expired(c) ==
  /\ call[c].pc = "answered" /\ call[c].answer = "denied" /\ ~call[c].retried
  /\ storage.pair = None
  /\ Settle(c)
  /\ ClearSession(call[c].tab)
  /\ UNCHANGED <<chainVars, stale, history>>

\* Mutant: every 401 starts a refresh of its own.
JoinRefreshAlone(t) ==
  [tab EXCEPT ![t].refresh = [pc |-> "sent", tok |-> storage.pair, answer |-> None]]

\* refreshInFlight: the refresh of the tab, joined when there is one.
JoinRefresh(t) ==
  IF tab[t].refresh.pc # "none" THEN tab
  ELSE [tab EXCEPT ![t].refresh =
          [pc |-> "sent", tok |-> storage.pair, answer |-> None]]

Overlaps(t) ==
  /\ tab[t].refresh.pc = "none"
  /\ \E other \in Tabs \ {t} : tab[other].refresh.tok = storage.pair

\* Any other 401 waits for a refresh.
AwaitRefresh(c) ==
  LET t == call[c].tab
  IN  /\ call[c].pc = "answered" /\ call[c].answer = "denied" /\ ~call[c].retried
      /\ storage.pair # None
      /\ call' = [call EXCEPT ![c].pc = "awaiting", ![c].answer = None]
      /\ tab' = JoinRefresh(t)
      /\ Blame("overlap", Overlaps(t))
      /\ UNCHANGED <<chainVars, stale, storage, reloads, dropped>>

Deliver(c) == Resolve(c) \/ Reject(c) \/ Expired(c) \/ AwaitRefresh(c)

-----------------------------------------------------------------------------
(* What becomes of a refresh *)

AnswerRefresh(t, answer) ==
  tab' = [tab EXCEPT ![t].refresh.pc = "answered", ![t].refresh.answer = answer]

\* TokenService.rotate, as SessionChain has it: a live token is exchanged, a spent
\* one ends its session, and anything may be the answer in a session that forked.
ServerRefreshes(t) ==
  LET tok == tab[t].refresh.tok
      s == issued[tok]
  IN  /\ tab[t].refresh.pc = "sent"
      /\ \/ \E p \in Tokens :
              /\ \/ tok \in live[s] /\ Chain!Extend(s, p)
                 \/ status[s] = "forked" /\ Chain!Waste(s, p)
              /\ AnswerRefresh(t, p)
              /\ UNCHANGED dropped
         \/ /\ \/ status[s] = "open" /\ tok \notin live[s]
               \/ status[s] = "forked"
            /\ Chain!End({s})
            /\ AnswerRefresh(t, "denied")
            /\ dropped' = IF status[s] = "open" THEN dropped \cup {"replay"} ELSE dropped
         \/ /\ status[s] = "ended"
            /\ AnswerRefresh(t, "denied")
            /\ UNCHANGED <<chainVars, dropped>>
      /\ UNCHANGED <<stale, storage, call, reloads, blame>>

\* Two tabs' exchanges of one token overlap on the server.
ServerForks(t1, t2) ==
  LET tok == tab[t1].refresh.tok
  IN  /\ t1 # t2
      /\ tab[t1].refresh.pc = "sent" /\ tab[t2].refresh.pc = "sent"
      /\ tab[t2].refresh.tok = tok
      /\ tok \in live[issued[tok]]
      /\ Chain!Fork(issued[tok])
      /\ UNCHANGED <<stale, clientVars, history>>

LoseRefresh(t) ==
  /\ tab[t].refresh.pc \in {"sent", "answered"}
  /\ tab[t].refresh.answer # "failed"
  /\ AnswerRefresh(t, "failed")
  /\ UNCHANGED <<chainVars, stale, storage, call, history>>

Waiting(t) == {c \in Calls : call[c].tab = t /\ call[c].pc = "awaiting"}

\* Mutant: the calls are replayed with the token they had.
RefreshSucceedsOldToken(t) ==
  LET p == tab[t].refresh.answer
  IN  /\ tab[t].refresh.pc = "answered"
      /\ p \in Tokens
      /\ storage' = [pair |-> p, user |-> issued[p]]
      /\ tab' = [tab EXCEPT ![t].refresh = NoRefresh]
      /\ call' = [c \in Calls |->
           IF c \in Waiting(t)
           THEN [call[c] EXCEPT !.pc = "sent", !.retried = TRUE]
           ELSE call[c]]
      /\ Blame("late", Owner(storage.pair) # issued[p])
      /\ UNCHANGED <<chainVars, stale, reloads, dropped>>

\* The new pair and identity are stored, and every waiting call is replayed with it.
RefreshSucceeds(t) ==
  LET p == tab[t].refresh.answer
  IN  /\ tab[t].refresh.pc = "answered"
      /\ p \in Tokens
      /\ storage' = [pair |-> p, user |-> issued[p]]
      /\ tab' = [tab EXCEPT ![t].refresh = NoRefresh]
      /\ call' = [c \in Calls |->
           IF c \in Waiting(t)
           THEN [call[c] EXCEPT !.pc = "sent", !.pair = p, !.retried = TRUE]
           ELSE call[c]]
      /\ Blame("late", Owner(storage.pair) # issued[p])
      /\ UNCHANGED <<chainVars, stale, reloads, dropped>>

\* Mutant: the calls that waited are never rejected.
RefreshFailsSilently(t) ==
  /\ tab[t].refresh.pc = "answered"
  /\ tab[t].refresh.answer \notin Tokens
  /\ Forget(t)
  /\ GiveUp(issued[tab[t].refresh.tok], tab[t].refresh.answer)
  /\ UNCHANGED <<chainVars, stale, call, reloads>>

\* Mutant: nobody tells AuthProvider.
RefreshFailsUntold(t) ==
  LET r == tab[t].refresh
  IN  /\ r.pc = "answered"
      /\ r.answer \notin Tokens
      /\ storage' = Empty
      /\ tab' = [tab EXCEPT ![t].refresh = NoRefresh]
      /\ call' = [c \in Calls |-> IF c \in Waiting(t) THEN NoCall ELSE call[c]]
      /\ GiveUp(issued[r.tok], r.answer)
      /\ UNCHANGED <<chainVars, stale, reloads>>

\* The session is forgotten, and every waiting call rejected with its own 401.
RefreshFails(t) ==
  LET r == tab[t].refresh
  IN  /\ r.pc = "answered"
      /\ r.answer \notin Tokens
      /\ Forget(t)
      /\ call' = [c \in Calls |-> IF c \in Waiting(t) THEN NoCall ELSE call[c]]
      /\ GiveUp(issued[r.tok], r.answer)
      /\ UNCHANGED <<chainVars, stale, reloads>>

-----------------------------------------------------------------------------
(* The rest of the world *)

OpenSession(s) ==
  /\ Chain!Open(s)
  /\ UNCHANGED <<stale, clientVars, history>>

\* Somebody else, or the server's clock, ends the session.
EndSession(s) ==
  /\ Chain!End({s})
  /\ UNCHANGED <<stale, clientVars, history>>

\* An access token outlives the one replay it is fetched for.
ExpireAccess(p) ==
  /\ issued[p] # None
  /\ p \notin stale
  /\ \A c \in Calls : call[c].retried => call[c].pair # p
  /\ \A t \in Tabs : tab[t].refresh.answer # p
  /\ stale' = stale \cup {p}
  /\ UNCHANGED <<chainVars, clientVars, history>>

CallProgress(c) == ServerAnswers(c) \/ Lose(c) \/ Deliver(c)

RefreshProgress(t) ==
  \/ ServerRefreshes(t) \/ LoseRefresh(t) \/ RefreshSucceeds(t) \/ RefreshFails(t)

Next ==
  \/ \E t \in Tabs, c \in Calls :
       \/ \E op \in {"data", "me", "logout"} : StartCall(t, c, op)
       \/ Reload(t, c)
  \/ \E t \in Tabs, s \in Sessions, p \in Tokens : SignIn(t, s, p)
  \/ \E c \in Calls : CallProgress(c)
  \/ \E t \in Tabs : RefreshProgress(t)
  \/ \E t1, t2 \in Tabs : ServerForks(t1, t2)
  \/ \E s \in Sessions : OpenSession(s) \/ EndSession(s)
  \/ \E p \in Tokens : ExpireAccess(p)

\* Every request is answered or fails, and the event loop runs its continuation.
Fairness ==
  /\ \A c \in Calls : WF_vars(CallProgress(c))
  /\ \A t \in Tabs : WF_vars(RefreshProgress(t))

Spec == Init /\ [][Next]_vars /\ Fairness

-----------------------------------------------------------------------------
(* Properties *)

Token == Tokens \cup {None}
Refresh == [pc : {"none", "sent", "answered"}, tok : Token,
            answer : Token \cup {"denied", "failed"}]
Call == [pc : {"idle", "sent", "answered", "awaiting"}, tab : Tabs \cup {None},
         op : {"data", "me", "boot", "logout"}, pair : Token, retried : BOOLEAN,
         answer : {"ok", "failed", "denied", None}]

\* Every variable keeps its type.
TypeOK ==
  /\ status \in [Sessions -> {"none", "open", "forked", "ended"}]
  /\ live \in [Sessions -> SUBSET Tokens]
  /\ issued \in [Tokens -> Sessions \cup {None}]
  /\ stale \subseteq Tokens
  /\ storage \in [pair : Token, user : Sessions \cup {None}]
  /\ tab \in [Tabs -> [user : Sessions \cup {None}, loading : BOOLEAN, refresh : Refresh]]
  /\ call \in [Calls -> Call]
  /\ reloads \in Nat
  /\ blame \subseteq {"late", "overlap", "reload"}
  /\ dropped \subseteq {"denied", "failed", "replay"}

\* Refresh tokens are single-use and the calls of a tab share one refresh: the client
\* presents a token of an open session twice only when two tabs refreshed at once or
\* a reload cut a refresh off.
PresentedOnce == "replay" \in dropped => blame \cap {"overlap", "reload"} # {}

\* However many calls find their access token expired at once, and however tabs and
\* reloads get in each other's way: what the client takes for a refusal never signs
\* the user out of a session that is open, unless a late answer concerned another
\* session.  What a lost or failed answer does, GivesUpOnlyWhatIsGone shows.
KeptWhileOpen == "denied" \in dropped => "late" \in blame

\* A call that waits, waits for a refresh that is under way.
WaitersHaveRefresh ==
  \A c \in Calls : call[c].pc = "awaiting" => tab[call[c].tab].refresh.pc # "none"

\* In one tab the user shown is the one whose tokens go with the next call, unless
\* an answer of an earlier session came late.
ShowsBearer ==
  "late" \in blame \/ \A t \in Tabs : tab[t].user \in {None, Owner(storage.pair)}

\* Refuted.  The session is given up "when the session cannot be recovered", for "the
\* refresh token was expired, already spent, or its session was revoked"
\* (apiClient.ts:33,121-122): the same catch takes a lost answer of the refresh, and
\* every failure of the replayed request, a conflict or a validation error included.
GivesUpOnlyWhatIsGone == dropped \cap {"denied", "failed"} = {}

\* Refuted.  The refresh is "shared by every request that 401s while it runs", so that
\* no token is rotated twice (apiClient.ts:46-52), and an expired token is renewed
\* "transparently" (sprint-2.md:66): another tab, or the page loaded anew, does not
\* share it, presents the token again and loses the session.
NeverReplays == "replay" \notin dropped

\* No call waits for ever, whatever becomes of the refresh it waits for.
CallsSettle == \A c \in Calls : call[c].pc # "idle" ~> call[c].pc = "idle"

\* Signing out ends at the login page, whatever becomes of the request; or in a
\* reload of the tab.
SignOutEnds ==
  \A c \in Calls, t \in Tabs :
    (call[c].op = "logout" /\ call[c].tab = t) ~> (tab[t].user = None \/ tab[t].loading)

\* A reloaded tab does not show the spinner for ever.
BootEnds == \A t \in Tabs : tab[t].loading ~> ~tab[t].loading

=============================================================================
