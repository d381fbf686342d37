--------------------------- MODULE WebClientProofs ---------------------------
(***************************************************************************)
(* Theorems about WebClient for every set of tabs, calls, sessions and     *)
(* tokens and every number of reloads.                                     *)
(***************************************************************************)
EXTENDS WebClient, TLAPS

-----------------------------------------------------------------------------
(* The inductive invariant *)

\* A session has one live token at most, and it was issued in it; a token is issued
\* in no session that was not opened.
LiveOK ==
  /\ \A s \in Sessions : \A p, q \in live[s] : p = q /\ issued[p] = s
  /\ \A p \in Tokens : issued[p] # None => status[issued[p]] # "none"

\* What a tab knows of its refresh: the token it sends was issued, and what it
\* brings is a token of the same session.
RefreshOK(r, of) ==
  /\ r.pc = "none" => r = NoRefresh
  /\ r.pc # "none" => r.tok # None /\ of[r.tok] # None
  /\ r.answer # None <=> r.pc = "answered"
  /\ r.answer \in Tokens => of[r.answer] = of[r.tok]

\* The tokens the client holds were issued.
TokensIssued ==
  /\ storage.pair # None => issued[storage.pair] # None
  /\ \A t \in Tabs : RefreshOK(tab[t].refresh, issued)

\* A call has a tab, and one that waits, waits for a refresh of that tab.
CallsOK ==
  \A c \in Calls :
    /\ call[c].pc # "idle" => call[c].tab \in Tabs
    /\ call[c].pc = "awaiting" => tab[call[c].tab].refresh.pc # "none"

Tab == [user : Sessions \cup {None}, loading : BOOLEAN, refresh : Refresh]

Good == TypeOK /\ LiveOK /\ TokensIssued /\ CallsOK

IssuedPersists == \A p \in Tokens : issued[p] # None => issued'[p] = issued[p]

ServerTypes ==
  /\ status \in [Sessions -> {"none", "open", "forked", "ended"}]
  /\ live \in [Sessions -> SUBSET Tokens]
  /\ issued \in [Tokens -> Sessions \cup {None}]

-----------------------------------------------------------------------------
(* The server *)

(* A step of SessionChain keeps its types and what LiveOK says, and never takes a
   token back. *)
LEMMA ServerSteps ==
  ASSUME ServerTypes, LiveOK, [Chain!Next]_chainVars
  PROVE  ServerTypes' /\ LiveOK' /\ IssuedPersists
<1>1. CASE UNCHANGED chainVars
  BY <1>1 DEF chainVars, ServerTypes, LiveOK, IssuedPersists
<1>2. ASSUME NEW s \in Sessions, Chain!Open(s)
      PROVE  ServerTypes' /\ LiveOK' /\ IssuedPersists
  BY <1>2 DEF Chain!Open, ServerTypes, LiveOK, IssuedPersists
<1>3. ASSUME NEW s \in Sessions, Chain!Spend(s)
      PROVE  ServerTypes' /\ LiveOK' /\ IssuedPersists
  BY <1>3 DEF Chain!Spend, ServerTypes, LiveOK, IssuedPersists
<1>4. ASSUME NEW s \in Sessions, Chain!Fork(s)
      PROVE  ServerTypes' /\ LiveOK' /\ IssuedPersists
  BY <1>4 DEF Chain!Fork, ServerTypes, LiveOK, IssuedPersists
<1>5. ASSUME NEW s \in Sessions, NEW p \in Tokens, Chain!Extend(s, p)
      PROVE  ServerTypes' /\ LiveOK' /\ IssuedPersists
  BY <1>5, NamesAssumption DEF Chain!Extend, ServerTypes, LiveOK, IssuedPersists
<1>6. ASSUME NEW s \in Sessions, NEW p \in Tokens, Chain!Waste(s, p)
      PROVE  ServerTypes' /\ LiveOK' /\ IssuedPersists
  BY <1>6, NamesAssumption DEF Chain!Waste, ServerTypes, LiveOK, IssuedPersists
<1>7. ASSUME NEW ended \in SUBSET Sessions, Chain!End(ended)
      PROVE  ServerTypes' /\ LiveOK' /\ IssuedPersists
  BY <1>7 DEF Chain!End, ServerTypes, LiveOK, IssuedPersists
<1>. QED BY <1>1, <1>2, <1>3, <1>4, <1>5, <1>6, <1>7 DEF Chain!Next

-----------------------------------------------------------------------------
(* The parts of a step *)

(* What a refresh knows stays true. *)
LEMMA RefreshKept ==
  ASSUME Good, IssuedPersists
  PROVE  \A r \in Refresh : RefreshOK(r, issued) => RefreshOK(r, issued')
BY NamesAssumption DEF Good, TypeOK, IssuedPersists, RefreshOK, Refresh, Token

(* Forgetting what is stored, and leaving every refresh alone, is safe. *)
LEMMA LeavesRefreshes ==
  ASSUME Good, IssuedPersists, storage'.pair \in {storage.pair, None},
         \A t \in Tabs : tab'[t].refresh = tab[t].refresh
  PROVE  TokensIssued'
<1>1. storage'.pair # None => issued'[storage'.pair] # None
  BY NamesAssumption DEF Good, TypeOK, TokensIssued, IssuedPersists, Token
<1>2. ASSUME NEW t \in Tabs
      PROVE  RefreshOK(tab'[t].refresh, issued')
  BY RefreshKept DEF Good, TypeOK, TokensIssued
<1>. QED BY <1>1, <1>2 DEF TokensIssued

(* The states of a tab and of a call that the steps bring about. *)
LEMMA Shapes ==
  /\ NoRefresh \in Refresh
  /\ NoCall \in Call
  /\ \A k \in Call, pc \in {"idle", "sent", "answered", "awaiting"},
        answer \in {"ok", "failed", "denied", None} :
        [k EXCEPT !.pc = pc, !.answer = answer] \in Call
  /\ \A b \in Tab, u \in Sessions \cup {None}, l \in BOOLEAN, r \in Refresh :
        /\ [b EXCEPT !.user = u, !.loading = l] \in Tab
        /\ [b EXCEPT !.user = u, !.loading = l].refresh = b.refresh
        /\ [b EXCEPT !.refresh = r] \in Tab
        /\ [b EXCEPT !.refresh = r].refresh = r
<1>1. NoRefresh \in Refresh
  BY Zenon DEF NoRefresh, Refresh, Token
<1>2. NoCall \in Call
  BY Zenon DEF NoCall, Call, Token
<1>3. ASSUME NEW k \in Call, NEW pc \in {"idle", "sent", "answered", "awaiting"},
             NEW answer \in {"ok", "failed", "denied", None}
      PROVE  [k EXCEPT !.pc = pc, !.answer = answer] \in Call
  BY DEF Call
<1>4. ASSUME NEW b \in Tab, NEW u \in Sessions \cup {None}, NEW l \in BOOLEAN
      PROVE  /\ [b EXCEPT !.user = u, !.loading = l] \in Tab
             /\ [b EXCEPT !.user = u, !.loading = l].refresh = b.refresh
  BY DEF Tab
<1>5. ASSUME NEW b \in Tab, NEW r \in Refresh
      PROVE  [b EXCEPT !.refresh = r] \in Tab /\ [b EXCEPT !.refresh = r].refresh = r
  BY DEF Tab
<1>. QED BY <1>1, <1>2, <1>3, <1>4, <1>5, Zenon

-----------------------------------------------------------------------------
(* Every step keeps the invariant *)

(* To the server, each step is one of SessionChain or none. *)
LEMMA ServerMoves ==
  ASSUME Good, [Next]_vars
  PROVE  [Chain!Next]_chainVars
<1>1. CASE UNCHANGED vars
  BY <1>1 DEF vars, chainVars
<1>2. ASSUME NEW t \in Tabs, NEW s \in Sessions, NEW p \in Tokens, SignIn(t, s, p)
      PROVE  Chain!Next
  BY <1>2 DEF SignIn, Chain!Next
<1>3. ASSUME NEW c \in Calls, ServerAnswers(c)
      PROVE  [Chain!Next]_chainVars
  <2>1. CASE UNCHANGED chainVars
    BY <2>1
  <2>2. CASE Admitted(call[c].pair) /\ Chain!End({issued[call[c].pair]})
    <3>1. issued[call[c].pair] \in Sessions \cup {None}
      BY <2>2 DEF Admitted, Good, TypeOK, Call, Token
    <3>2. CASE issued[call[c].pair] = None
      <4>1. \A s \in Sessions : s # None
        BY NamesAssumption
      <4>2. UNCHANGED chainVars
        BY <2>2, <3>2, <4>1 DEF Chain!End, chainVars, Good, TypeOK
      <4>. QED BY <4>2
    <3>3. CASE issued[call[c].pair] \in Sessions
      BY <2>2, <3>3 DEF Chain!Next
    <3>. QED BY <3>1, <3>2, <3>3
  <2>. QED BY <1>3, <2>1, <2>2 DEF ServerAnswers
<1>4. ASSUME NEW t \in Tabs, ServerRefreshes(t)
      PROVE  [Chain!Next]_chainVars
  <2>. DEFINE s == issued[tab[t].refresh.tok]
  <2>1. s \in Sessions
    BY <1>4, NamesAssumption
    DEF ServerRefreshes, Good, TypeOK, TokensIssued, RefreshOK, Refresh, Token
  <2>2. \/ \E p \in Tokens : Chain!Extend(s, p) \/ Chain!Waste(s, p)
        \/ Chain!End({s})
        \/ UNCHANGED chainVars
    BY <1>4, Zenon DEF ServerRefreshes
  <2>. QED BY <2>1, <2>2, Zenon DEF Chain!Next
<1>5. ASSUME NEW t1 \in Tabs, NEW t2 \in Tabs, ServerForks(t1, t2)
      PROVE  Chain!Next
  <2>1. issued[tab[t1].refresh.tok] \in Sessions
    BY <1>5, NamesAssumption
    DEF ServerForks, Good, TypeOK, TokensIssued, RefreshOK, Refresh, Token
  <2>. QED BY <1>5, <2>1 DEF ServerForks, Chain!Next
<1>6. ASSUME NEW s \in Sessions, OpenSession(s) \/ EndSession(s)
      PROVE  Chain!Next
  BY <1>6 DEF OpenSession, EndSession, Chain!Next
<1>7. CASE /\ Next
           /\ \A t \in Tabs, s \in Sessions, p \in Tokens : ~SignIn(t, s, p)
           /\ \A c \in Calls : ~ServerAnswers(c)
           /\ \A t \in Tabs : ~ServerRefreshes(t)
           /\ \A t1, t2 \in Tabs : ~ServerForks(t1, t2)
           /\ \A s \in Sessions : ~OpenSession(s) /\ ~EndSession(s)
  BY <1>7, Zenon DEF Next, StartCall, Reload, CallProgress, Lose, Deliver, Resolve, Reject,
              Expired, AwaitRefresh, RefreshProgress, LoseRefresh, RefreshSucceeds,
              RefreshFails, ExpireAccess, chainVars
<1>. QED BY <1>1, <1>2, <1>3, <1>4, <1>5, <1>6, <1>7

ClientTypes ==
  /\ stale \subseteq Tokens
  /\ storage \in [pair : Token, user : Sessions \cup {None}]
  /\ tab \in [Tabs -> Tab]
  /\ call \in [Calls -> Call]
  /\ reloads \in Nat
  /\ blame \subseteq {"late", "overlap", "reload"}
  /\ dropped \subseteq {"denied", "failed", "replay"}

LEMMA TypesSplit == TypeOK <=> ServerTypes /\ ClientTypes
BY DEF TypeOK, ServerTypes, ClientTypes, Tab

(* Who a token belongs to is a session or nobody. *)
LEMMA Owners == ASSUME Good, NEW p \in Token PROVE Owner(p) \in Sessions \cup {None}
BY DEF Owner, Good, TypeOK, Token

(* Steps of a call. *)
LEMMA CallSteps ==
  ASSUME Good, IssuedPersists, NEW c \in Calls, CallProgress(c)
  PROVE  ClientTypes' /\ TokensIssued' /\ CallsOK'
<1>. USE TypesSplit DEF Good
<1>1. CASE ServerAnswers(c) \/ Lose(c)
  <2>1. PICK answer \in {"ok", "failed", "denied"} :
          /\ call[c].pc \in {"sent", "answered"}
          /\ Answer(c, answer)
          /\ UNCHANGED <<stale, storage, tab, history>>
    BY <1>1 DEF ServerAnswers, Lose
  <2>2. call' = [call EXCEPT ![c] = [call[c] EXCEPT !.pc = "answered", !.answer = answer]]
    BY <2>1 DEF Answer
  <2>3. [call[c] EXCEPT !.pc = "answered", !.answer = answer] \in Call
    BY Shapes, Zenon DEF ClientTypes
  <2>4. ClientTypes'
    BY <2>1, <2>2, <2>3 DEF ClientTypes, history
  <2>5. TokensIssued'
    BY <2>1, LeavesRefreshes
  <2>6. CallsOK'
    BY <2>1, <2>2 DEF CallsOK, ClientTypes, Call
  <2>. QED BY <2>4, <2>5, <2>6
<1>2. CASE Resolve(c) \/ Reject(c) \/ Expired(c)
  <2>. DEFINE t == call[c].tab
  <2>1. call[c].pc = "answered" /\ t \in Tabs /\ call[c] \in Call
    BY <1>2 DEF Resolve, Reject, Expired, CallsOK, ClientTypes
  <2>2. Owner(call[c].pair) \in Sessions \cup {None}
    BY <2>1, Owners DEF Call
  <2>3. PICK u \in Sessions \cup {None}, l \in BOOLEAN :
          /\ tab' = [tab EXCEPT ![t] = [tab[t] EXCEPT !.user = u, !.loading = l]]
          /\ storage' \in [pair : {storage.pair, None}, user : Sessions \cup {None}]
    <3>1. tab[t] \in Tab /\ tab = [tab EXCEPT ![t] = [tab[t] EXCEPT !.user = tab[t].user,
                                                          !.loading = tab[t].loading]]
      BY <2>1 DEF ClientTypes, Tab
    <3>2. storage \in [pair : {storage.pair, None}, user : Sessions \cup {None}]
      BY DEF ClientTypes
    <3>3. CASE ClearSession(t)
      <4>1. tab' = [tab EXCEPT ![t] = [tab[t] EXCEPT !.user = None, !.loading = FALSE]]
        BY <3>3 DEF ClearSession
      <4>2. storage' \in [pair : {storage.pair, None}, user : Sessions \cup {None}]
        BY <3>3 DEF ClearSession, Empty
      <4>. QED BY <4>1, <4>2, Zenon
    <3>4. CASE UNCHANGED <<storage, tab>>
      BY <3>1, <3>2, <3>4, Zenon DEF Tab
    <3>5. CASE /\ storage' = [storage EXCEPT !.user = Owner(call[c].pair)]
               /\ tab' = [tab EXCEPT ![t].user = Owner(call[c].pair),
                                     ![t].loading = @ /\ call[c].op # "boot"]
      <4>1. tab' = [tab EXCEPT ![t] = [tab[t] EXCEPT !.user = Owner(call[c].pair),
                                     !.loading = tab[t].loading /\ call[c].op # "boot"]]
        BY <3>5, <2>1 DEF ClientTypes
      <4>2. (tab[t].loading /\ call[c].op # "boot") \in BOOLEAN
        OBVIOUS
      <4>3. storage' \in [pair : {storage.pair, None}, user : Sessions \cup {None}]
        BY <3>5, <2>2, <3>2
      <4>. QED BY <4>1, <4>2, <4>3, <2>2, Zenon
    <3>6. \/ ClearSession(t) \/ UNCHANGED <<storage, tab>>
          \/ /\ storage' = [storage EXCEPT !.user = Owner(call[c].pair)]
             /\ tab' = [tab EXCEPT ![t].user = Owner(call[c].pair),
                                   ![t].loading = @ /\ call[c].op # "boot"]
      <4>1. call[c].op \in {"data", "me", "boot", "logout"}
        BY <2>1 DEF Call
      <4>2. CASE Resolve(c)
        BY <4>1, <4>2 DEF Resolve
      <4>3. CASE Reject(c) \/ Expired(c)
        BY <4>3 DEF Reject, Expired
      <4>. QED BY <1>2, <4>2, <4>3
    <3>. QED BY <3>3, <3>4, <3>5, <3>6, Zenon
  <2>4. call' = [call EXCEPT ![c] = NoCall]
    BY <1>2 DEF Resolve, Reject, Expired, Settle
  <2>5. /\ UNCHANGED <<stale, reloads>>
        /\ blame' \subseteq blame \cup {"late"}
        /\ dropped' \subseteq dropped \cup {"failed", "denied"}
    <3>1. call[c].op \in {"data", "me", "boot", "logout"}
      BY <2>1 DEF Call
    <3>2. CASE Resolve(c)
      BY <3>1, <3>2 DEF Resolve, Blame
    <3>3. CASE Reject(c)
      BY <3>3 DEF Reject, GiveUp, Blame
    <3>4. CASE Expired(c)
      BY <3>4 DEF Expired, history
    <3>. QED BY <1>2, <3>2, <3>3, <3>4
  <2>6. /\ tab' \in [Tabs -> Tab]
        /\ \A b \in Tabs : tab'[b].refresh = tab[b].refresh
    <3>1. tab[t] \in Tab
      BY <2>1 DEF ClientTypes
    <3>2. /\ [tab[t] EXCEPT !.user = u, !.loading = l] \in Tab
          /\ [tab[t] EXCEPT !.user = u, !.loading = l].refresh = tab[t].refresh
      BY <3>1, Zenon DEF Tab
    <3>. QED BY <2>1, <2>3, <3>2 DEF ClientTypes
  <2>7. call' \in [Calls -> Call] /\ call'[c] = NoCall
    BY <2>4, Shapes, Zenon DEF ClientTypes
  <2>8. ClientTypes'
    BY <2>3, <2>5, <2>6, <2>7 DEF ClientTypes, Token
  <2>9. TokensIssued'
    BY <2>3, <2>6, LeavesRefreshes
  <2>10. CallsOK'
    BY <2>4, <2>6, <2>7 DEF CallsOK, NoCall, ClientTypes
  <2>. QED BY <2>8, <2>9, <2>10
<1>3. CASE AwaitRefresh(c)
  <2>. DEFINE t == call[c].tab
              sent == [pc |-> "sent", tok |-> storage.pair, answer |-> None]
  <2>1. /\ call[c].pc = "answered" /\ t \in Tabs /\ call[c] \in Call
        /\ tab[t] \in Tab /\ storage.pair \in Tokens
    BY <1>3 DEF AwaitRefresh, CallsOK, ClientTypes, Token
  <2>2. sent \in Refresh /\ RefreshOK(sent, issued)
    BY <1>3, <2>1, NamesAssumption
    DEF AwaitRefresh, TokensIssued, Refresh, Token, RefreshOK
  <2>3. tab' = tab \/ tab' = [tab EXCEPT ![t] = [tab[t] EXCEPT !.refresh = sent]]
    BY <1>3 DEF AwaitRefresh, JoinRefresh
  <2>4. /\ tab' \in [Tabs -> Tab]
        /\ tab'[t].refresh.pc # "none"
        /\ \A b \in Tabs : tab'[b].refresh \in {tab[b].refresh, sent}
        /\ \A b \in Tabs \ {t} : tab'[b] = tab[b]
    <3>1. [tab[t] EXCEPT !.refresh = sent] \in Tab
      BY <2>1, <2>2, Shapes, Zenon
    <3>2. [tab[t] EXCEPT !.refresh = sent].refresh = sent
      BY <2>1, <2>2, Shapes, Zenon
    <3>3. tab[t].refresh.pc = "none" =>
            tab' = [tab EXCEPT ![t] = [tab[t] EXCEPT !.refresh = sent]]
      BY <1>3 DEF AwaitRefresh, JoinRefresh
    <3>4. CASE tab' = tab
      <4>1. tab[t].refresh.pc # "none" \/ tab[t].refresh = sent
        BY <2>1, <3>2, <3>3, <3>4 DEF ClientTypes
      <4>. QED BY <3>4, <4>1 DEF ClientTypes
    <3>5. CASE tab' = [tab EXCEPT ![t] = [tab[t] EXCEPT !.refresh = sent]]
      <4>1. tab'[t] = [tab[t] EXCEPT !.refresh = sent]
        BY <2>1, <3>5 DEF ClientTypes
      <4>2. tab' \in [Tabs -> Tab] /\ \A b \in Tabs \ {t} : tab'[b] = tab[b]
        BY <2>1, <3>1, <3>5 DEF ClientTypes
      <4>3. tab'[t].refresh = sent
        BY <3>2, <4>1
      <4>. QED BY <4>2, <4>3
    <3>. QED BY <2>3, <3>4, <3>5
  <2>5. call' = [call EXCEPT ![c] = [call[c] EXCEPT !.pc = "awaiting", !.answer = None]]
    BY <1>3 DEF AwaitRefresh
  <2>6. [call[c] EXCEPT !.pc = "awaiting", !.answer = None] \in Call
    BY <2>1, Shapes, Zenon
  <2>7. ClientTypes'
    BY <1>3, <2>4, <2>5, <2>6 DEF ClientTypes, AwaitRefresh, Blame
  <2>8. TokensIssued'
    <3>1. \A b \in Tabs : RefreshOK(tab'[b].refresh, issued')
      BY <2>2, <2>4, RefreshKept DEF TokensIssued, ClientTypes, Tab
    <3>2. storage'.pair # None => issued'[storage'.pair] # None
      BY <1>3, <2>1 DEF AwaitRefresh, TokensIssued, IssuedPersists
    <3>. QED BY <3>1, <3>2 DEF TokensIssued
  <2>9. CallsOK'
    BY <2>1, <2>4, <2>5, <2>6 DEF CallsOK, ClientTypes, Call
  <2>. QED BY <2>7, <2>8, <2>9
<1>. QED BY <1>1, <1>2, <1>3 DEF CallProgress, Deliver

(* A tab whose refresh becomes r, when r is one of what was issued. *)
LEMMA RefreshReplaced ==
  ASSUME Good, IssuedPersists, NEW t \in Tabs, NEW r \in Refresh, RefreshOK(r, issued'),
         NEW b \in Tab, b.refresh = r,
         tab' = [tab EXCEPT ![t] = b],
         storage'.pair # None => issued'[storage'.pair] # None
  PROVE  /\ tab' \in [Tabs -> Tab]
         /\ tab'[t].refresh = r
         /\ \A u \in Tabs \ {t} : tab'[u] = tab[u]
         /\ TokensIssued'
<1>1. tab \in [Tabs -> Tab]
  BY TypesSplit DEF Good, ClientTypes
<1>2. /\ tab' \in [Tabs -> Tab]
      /\ tab'[t].refresh = r
      /\ \A u \in Tabs \ {t} : tab'[u] = tab[u]
  BY <1>1
<1>3. ASSUME NEW u \in Tabs
      PROVE  RefreshOK(tab'[u].refresh, issued')
  <2>1. CASE u = t
    BY <2>1, <1>2
  <2>2. CASE u # t
    BY <2>2, <1>1, <1>2, RefreshKept DEF Good, TokensIssued, Tab
  <2>. QED BY <2>1, <2>2
<1>. QED BY <1>2, <1>3 DEF TokensIssued

(* What becomes of the answer to a refresh. *)
AnsweredRefresh(t, answer) ==
  [tab[t].refresh EXCEPT !.pc = "answered", !.answer = answer]

LEMMA AnswerStored ==
  ASSUME Good, NEW t \in Tabs, NEW answer \in Tokens \cup {"denied", "failed"},
         AnswerRefresh(t, answer)
  PROVE  /\ tab' = [tab EXCEPT ![t] = [tab[t] EXCEPT !.refresh = AnsweredRefresh(t, answer)]]
         /\ [tab[t] EXCEPT !.refresh = AnsweredRefresh(t, answer)] \in Tab
         /\ [tab[t] EXCEPT !.refresh = AnsweredRefresh(t, answer)].refresh
              = AnsweredRefresh(t, answer)
         /\ AnsweredRefresh(t, answer) \in Refresh
         /\ AnsweredRefresh(t, answer).pc = "answered"
         /\ AnsweredRefresh(t, answer).tok = tab[t].refresh.tok
         /\ AnsweredRefresh(t, answer).answer = answer
<1>1. tab \in [Tabs -> Tab] /\ tab[t] \in Tab /\ tab[t].refresh \in Refresh
  BY TypesSplit DEF Good, ClientTypes, Tab
<1>2. AnsweredRefresh(t, answer) \in Refresh
  BY <1>1, Zenon DEF AnsweredRefresh, Refresh, Token
<1>3. /\ AnsweredRefresh(t, answer).pc = "answered"
      /\ AnsweredRefresh(t, answer).tok = tab[t].refresh.tok
      /\ AnsweredRefresh(t, answer).answer = answer
  BY <1>1 DEF AnsweredRefresh, Refresh
<1>4. /\ [tab[t] EXCEPT !.refresh = AnsweredRefresh(t, answer)] \in Tab
      /\ [tab[t] EXCEPT !.refresh = AnsweredRefresh(t, answer)].refresh
           = AnsweredRefresh(t, answer)
  BY <1>1, <1>2, Shapes, Zenon
<1>5. tab' = [tab EXCEPT ![t] = [tab[t] EXCEPT !.refresh = AnsweredRefresh(t, answer)]]
  <2>1. tab' = [tab EXCEPT ![t].refresh.pc = "answered", ![t].refresh.answer = answer]
    BY DEF AnswerRefresh
  <2>2. tab'[t] = [tab[t] EXCEPT !.refresh =
                    [tab[t].refresh EXCEPT !.pc = "answered", !.answer = answer]]
    BY <1>1, <2>1 DEF Tab, Refresh
  <2>3. tab'[t] = [tab[t] EXCEPT !.refresh = AnsweredRefresh(t, answer)]
    BY <2>2 DEF AnsweredRefresh
  <2>4. DOMAIN tab' = Tabs /\ \A b \in Tabs \ {t} : tab'[b] = tab[b]
    BY <1>1, <2>1
  <2>5. tab' \in [Tabs -> Tab]
    BY <1>1, <1>4, <2>1, <2>3, <2>4
  <2>. QED BY <1>1, <2>3, <2>4, <2>5
<1>. QED BY <1>2, <1>3, <1>4, <1>5

(* Steps of a refresh. *)
LEMMA RefreshSteps ==
  ASSUME Good, IssuedPersists, NEW t \in Tabs, RefreshProgress(t)
  PROVE  ClientTypes' /\ TokensIssued' /\ CallsOK'
<1>. USE TypesSplit DEF Good
<1>0. /\ tab \in [Tabs -> Tab] /\ tab[t] \in Tab /\ tab[t].refresh \in Refresh
      /\ RefreshOK(tab[t].refresh, issued)
  BY DEF ClientTypes, Tab, TokensIssued
<1>1. CASE ServerRefreshes(t) \/ LoseRefresh(t)
  <2>1. tab[t].refresh.pc # "none" /\ UNCHANGED <<stale, storage, call, reloads, blame>>
    BY <1>1 DEF ServerRefreshes, LoseRefresh, history
  <2>2. PICK answer \in Tokens \cup {"denied", "failed"} :
          /\ AnswerRefresh(t, answer)
          /\ answer \in Tokens => issued'[answer] = issued[tab[t].refresh.tok]
    <3>1. CASE LoseRefresh(t)
      BY <3>1, NamesAssumption DEF LoseRefresh
    <3>2. CASE ServerRefreshes(t)
      <4>1. \/ AnswerRefresh(t, "denied")
            \/ \E p \in Tokens :
                 /\ AnswerRefresh(t, p)
                 /\ \/ Chain!Extend(issued[tab[t].refresh.tok], p)
                    \/ Chain!Waste(issued[tab[t].refresh.tok], p)
        BY <3>2, Zenon DEF ServerRefreshes
      <4>2. \A p \in Tokens : (\/ Chain!Extend(issued[tab[t].refresh.tok], p)
                               \/ Chain!Waste(issued[tab[t].refresh.tok], p))
                             => issued'[p] = issued[tab[t].refresh.tok]
        BY DEF Chain!Extend, Chain!Waste, ServerTypes
      <4>3. CASE AnswerRefresh(t, "denied")
        BY <4>3, NamesAssumption
      <4>4. ASSUME NEW p \in Tokens, AnswerRefresh(t, p),
                   \/ Chain!Extend(issued[tab[t].refresh.tok], p)
                   \/ Chain!Waste(issued[tab[t].refresh.tok], p)
            PROVE  \E answer \in Tokens \cup {"denied", "failed"} :
                     /\ AnswerRefresh(t, answer)
                     /\ answer \in Tokens => issued'[answer] = issued[tab[t].refresh.tok]
        BY <4>2, <4>4, Zenon
      <4>. QED BY <4>1, <4>3, <4>4, Zenon
    <3>. QED BY <1>1, <3>1, <3>2
  <2>3. /\ AnsweredRefresh(t, answer) \in Refresh
        /\ AnsweredRefresh(t, answer).pc = "answered"
        /\ AnsweredRefresh(t, answer).tok = tab[t].refresh.tok
        /\ AnsweredRefresh(t, answer).answer = answer
    BY <2>2, AnswerStored
  <2>4. issued'[tab[t].refresh.tok] = issued[tab[t].refresh.tok] /\ tab[t].refresh.tok \in Tokens
    BY <1>0, <2>1 DEF IssuedPersists, RefreshOK, Refresh, Token
  <2>5. RefreshOK(AnsweredRefresh(t, answer), issued')
    BY <1>0, <2>1, <2>2, <2>3, <2>4, NamesAssumption DEF RefreshOK
  <2>6. storage'.pair # None => issued'[storage'.pair] # None
    BY <2>1 DEF TokensIssued, IssuedPersists, ClientTypes, Token
  <2>7. /\ tab' \in [Tabs -> Tab]
        /\ tab'[t].refresh = AnsweredRefresh(t, answer)
        /\ \A u \in Tabs \ {t} : tab'[u] = tab[u]
        /\ TokensIssued'
    <3>. DEFINE b == [tab[t] EXCEPT !.refresh = AnsweredRefresh(t, answer)]
                r == AnsweredRefresh(t, answer)
    <3>1. b \in Tab /\ b.refresh = r /\ tab' = [tab EXCEPT ![t] = b]
      BY <2>2, AnswerStored
    <3>. HIDE DEF b, r
    <3>2. r \in Refresh /\ RefreshOK(r, issued')
      BY <2>3, <2>5 DEF r
    <3>3. /\ tab' \in [Tabs -> Tab]
          /\ tab'[t].refresh = r
          /\ \A u \in Tabs \ {t} : tab'[u] = tab[u]
          /\ TokensIssued'
      BY <2>6, <3>1, <3>2, RefreshReplaced
    <3>. QED BY <3>3 DEF r
  <2>8. dropped' \subseteq dropped \cup {"replay"}
    BY <1>1 DEF ServerRefreshes, LoseRefresh, history
  <2>9. ClientTypes'
    BY <2>1, <2>7, <2>8 DEF ClientTypes
  <2>10. CallsOK'
    <3>1. tab'[t].refresh.pc # "none"
      BY <2>3, <2>7
    <3>2. call' = call /\ \A u \in Tabs : tab'[u].refresh.pc # tab[u].refresh.pc => u = t
      BY <2>1, <2>7
    <3>. QED BY <3>1, <3>2, Zenon DEF CallsOK
  <2>. QED BY <2>7, <2>9, <2>10
<1>2. CASE RefreshSucceeds(t)
  <2>. DEFINE p == tab[t].refresh.answer
              replayed == [c \in Calls |->
                IF c \in Waiting(t)
                THEN [call[c] EXCEPT !.pc = "sent", !.pair = p, !.retried = TRUE]
                ELSE call[c]]
  <2>1. /\ p \in Tokens /\ issued[p] = issued[tab[t].refresh.tok] /\ issued[p] \in Sessions
        /\ issued'[p] = issued[p] /\ tab[t].refresh.pc = "answered"
    BY <1>0, <1>2, NamesAssumption, Zenon
    DEF RefreshSucceeds, RefreshOK, Refresh, Token, ServerTypes, IssuedPersists
  <2>2. storage' = [pair |-> p, user |-> issued[p]]
    BY <1>2, Zenon DEF RefreshSucceeds
  <2>3. tab' = [tab EXCEPT ![t] = [tab[t] EXCEPT !.refresh = NoRefresh]]
    BY <1>2, Zenon DEF RefreshSucceeds
  <2>4. NoRefresh \in Refresh /\ RefreshOK(NoRefresh, issued')
    BY NamesAssumption, Shapes, Zenon DEF NoRefresh, RefreshOK
  <2>5. storage'.pair # None => issued'[storage'.pair] # None
    BY <2>1, <2>2, NamesAssumption
  <2>6. /\ [tab[t] EXCEPT !.refresh = NoRefresh] \in Tab
        /\ [tab[t] EXCEPT !.refresh = NoRefresh].refresh = NoRefresh
    BY <1>0, <2>4, Shapes, Zenon
  <2>7. /\ tab' \in [Tabs -> Tab]
        /\ tab'[t].refresh = NoRefresh
        /\ \A u \in Tabs \ {t} : tab'[u] = tab[u]
        /\ TokensIssued'
    BY <2>3, <2>4, <2>5, <2>6, RefreshReplaced
  <2>8. call' = replayed
    BY <1>2, Zenon DEF RefreshSucceeds
  <2>9. \A c \in Calls :
          [call[c] EXCEPT !.pc = "sent", !.pair = p, !.retried = TRUE] \in Call
    <3>1. \A k \in Call, q \in Tokens :
            [k EXCEPT !.pc = "sent", !.pair = q, !.retried = TRUE] \in Call
      BY DEF Call, Token
    <3>. QED BY <2>1, <3>1, Zenon DEF ClientTypes
  <2>10. ClientTypes'
    <3>1. call' \in [Calls -> Call]
      BY <2>8, <2>9, Zenon DEF ClientTypes
    <3>2. storage' \in [pair : Token, user : Sessions \cup {None}]
      BY <2>1, <2>2 DEF Token
    <3>. QED BY <1>2, <2>7, <3>1, <3>2, Zenon DEF ClientTypes, RefreshSucceeds, Blame
  <2>11. CallsOK'
    <3>. SUFFICES ASSUME NEW c \in Calls
                  PROVE  /\ call'[c].pc # "idle" => call'[c].tab \in Tabs
                         /\ call'[c].pc = "awaiting" => tab'[call'[c].tab].refresh.pc # "none"
      BY DEF CallsOK
    <3>1. CASE c \in Waiting(t)
      <4>1. call'[c] = [call[c] EXCEPT !.pc = "sent", !.pair = p, !.retried = TRUE]
        BY <2>8, <3>1, Zenon
      <4>2. call[c] \in Call /\ call[c].tab = t
        BY <3>1 DEF Waiting, ClientTypes
      <4>. QED BY <4>1, <4>2 DEF Call
    <3>2. CASE c \notin Waiting(t)
      BY <2>7, <2>8, <3>2, Zenon DEF Waiting, CallsOK
    <3>. QED BY <3>1, <3>2
  <2>. QED BY <2>7, <2>10, <2>11
<1>3. CASE RefreshFails(t)
  <2>1. /\ tab[t].refresh.pc = "answered" /\ tab[t].refresh.answer \notin Tokens
        /\ storage' = Empty
        /\ call' = [c \in Calls |-> IF c \in Waiting(t) THEN NoCall ELSE call[c]]
    BY <1>3 DEF RefreshFails, Forget
  <2>. DEFINE forgot == [tab[t] EXCEPT !.user = None, !.loading = FALSE, !.refresh = NoRefresh]
  <2>2. tab' = [tab EXCEPT ![t] = forgot]
    BY <1>0, <1>3 DEF RefreshFails, Forget
  <2>3. NoRefresh \in Refresh /\ RefreshOK(NoRefresh, issued')
    BY NamesAssumption, Shapes DEF NoRefresh, RefreshOK
  <2>4. forgot \in Tab /\ forgot.refresh = NoRefresh
    BY <1>0, <2>3 DEF Tab
  <2>5. storage'.pair # None => issued'[storage'.pair] # None
    BY <2>1 DEF Empty
  <2>6. /\ tab' \in [Tabs -> Tab]
        /\ tab'[t].refresh = NoRefresh
        /\ \A u \in Tabs \ {t} : tab'[u] = tab[u]
        /\ TokensIssued'
    BY <2>2, <2>3, <2>4, <2>5, RefreshReplaced, Zenon
  <2>7. ClientTypes'
    <3>1. call' \in [Calls -> Call]
      BY <2>1, Shapes, Zenon DEF ClientTypes
    <3>2. storage' \in [pair : Token, user : Sessions \cup {None}]
      BY <2>1 DEF Empty, Token
    <3>3. tab[t].refresh.answer \in {None, "denied", "failed"}
      BY <1>0, <2>1 DEF Refresh, Token
    <3>4. tab[t].refresh.answer # None
      BY <1>0, <2>1 DEF RefreshOK
    <3>5. dropped' \subseteq dropped \cup {"denied", "failed"} /\ blame' \subseteq blame \cup {"late"}
      BY <1>3, <3>3, <3>4 DEF RefreshFails, GiveUp, Blame
    <3>. QED BY <1>3, <2>6, <3>1, <3>2, <3>5 DEF ClientTypes, RefreshFails
  <2>8. CallsOK'
    BY <2>1, <2>6 DEF CallsOK, Waiting, NoCall
  <2>. QED BY <2>6, <2>7, <2>8
<1>. QED BY <1>1, <1>2, <1>3 DEF RefreshProgress

(* The steps of neither. *)
LEMMA OtherSteps ==
  ASSUME Good, IssuedPersists, [Next]_vars,
         \A c \in Calls : ~CallProgress(c), \A t \in Tabs : ~RefreshProgress(t)
  PROVE  ClientTypes' /\ TokensIssued' /\ CallsOK'
<1>. USE TypesSplit DEF Good
<1>1. CASE UNCHANGED vars
  <2>1. UNCHANGED <<storage, tab, call>>
    BY <1>1 DEF vars
  <2>2. TokensIssued'
    BY <2>1, LeavesRefreshes
  <2>. QED BY <1>1, <2>2 DEF vars, ClientTypes, CallsOK
<1>2. ASSUME NEW t \in Tabs, NEW c \in Calls, NEW op \in {"data", "me", "logout"},
             StartCall(t, c, op)
      PROVE  ClientTypes' /\ TokensIssued' /\ CallsOK'
  <2>1. /\ UNCHANGED <<stale, storage, tab, reloads, blame, dropped>>
        /\ call' = [call EXCEPT ![c] = Send(t, op)]
    BY <1>2 DEF StartCall, history
  <2>2. Send(t, op) \in Call /\ Send(t, op).tab = t /\ Send(t, op).pc = "sent"
    BY DEF Send, NoCall, Call, Token, ClientTypes
  <2>3. TokensIssued'
    BY <2>1, LeavesRefreshes
  <2>4. ClientTypes' /\ CallsOK'
    BY <2>1, <2>2 DEF ClientTypes, CallsOK
  <2>. QED BY <2>3, <2>4
<1>3. ASSUME NEW t \in Tabs, NEW c \in Calls, Reload(t, c)
      PROVE  ClientTypes' /\ TokensIssued' /\ CallsOK'
  <2>. DEFINE b == [user |-> IF storage.pair # None THEN storage.user ELSE None,
                    loading |-> storage.pair # None, refresh |-> NoRefresh]
              kept == [k \in Calls |-> IF call[k].tab = t THEN NoCall ELSE call[k]]
  <2>1. b \in Tab /\ b.refresh = NoRefresh
    BY Shapes, Zenon DEF Tab, ClientTypes
  <2>2. NoRefresh \in Refresh /\ RefreshOK(NoRefresh, issued')
    BY Shapes, NamesAssumption, Zenon DEF NoRefresh, RefreshOK
  <2>3. /\ tab' = [tab EXCEPT ![t] = b]
        /\ UNCHANGED <<stale, storage, dropped>>
        /\ reloads' \in Nat
        /\ blame' \subseteq blame \cup {"reload"}
    BY <1>3 DEF Reload, Blame, ClientTypes
  <2>4. storage'.pair # None => issued'[storage'.pair] # None
    BY <2>3 DEF TokensIssued, IssuedPersists, ClientTypes, Token
  <2>5. /\ tab' \in [Tabs -> Tab]
        /\ \A u \in Tabs \ {t} : tab'[u] = tab[u]
        /\ TokensIssued'
    <3>. HIDE DEF b
    <3>. QED BY <2>1, <2>2, <2>3, <2>4, RefreshReplaced
  <2>6. Send(t, "boot") \in Call /\ Send(t, "boot").tab = t /\ Send(t, "boot").pc = "sent"
    BY DEF Send, NoCall, Call, Token, ClientTypes
  <2>7. call' = kept \/ call' = [kept EXCEPT ![c] = Send(t, "boot")]
    BY <1>3 DEF Reload
  <2>8. kept \in [Calls -> Call]
    BY Shapes, Zenon DEF ClientTypes
  <2>9. call' \in [Calls -> Call]
    BY <2>6, <2>7, <2>8
  <2>10. \A k \in Calls :
           \/ call'[k] = NoCall
           \/ call'[k] = Send(t, "boot")
           \/ call'[k] = call[k] /\ call[k].tab # t
    BY <2>7
  <2>11. CallsOK'
    <3>1. NoCall.pc = "idle"
      BY DEF NoCall
    <3>. QED BY <2>5, <2>6, <2>10, <3>1 DEF CallsOK
  <2>. QED BY <2>3, <2>5, <2>9, <2>11 DEF ClientTypes
<1>4. ASSUME NEW t \in Tabs, NEW s \in Sessions, NEW p \in Tokens, SignIn(t, s, p)
      PROVE  ClientTypes' /\ TokensIssued' /\ CallsOK'
  <2>. DEFINE b == [tab[t] EXCEPT !.user = s, !.loading = FALSE]
  <2>1. /\ tab' = [tab EXCEPT ![t] = b]
        /\ storage' = [pair |-> p, user |-> s]
        /\ UNCHANGED <<stale, call, reloads, blame, dropped>>
    BY <1>4 DEF SignIn, history
  <2>2. /\ tab[t] \in Tab /\ tab[t].refresh \in Refresh
        /\ RefreshOK(tab[t].refresh, issued)
    BY DEF ClientTypes, Tab, TokensIssued
  <2>3. b \in Tab /\ b.refresh = tab[t].refresh
    BY <2>2 DEF Tab
  <2>4. RefreshOK(tab[t].refresh, issued')
    BY <2>2, RefreshKept
  <2>5. issued'[p] = s /\ s # None
    BY <1>4, NamesAssumption DEF SignIn, Chain!Extend, ServerTypes
  <2>6. storage'.pair # None => issued'[storage'.pair] # None
    BY <2>1, <2>5
  <2>7. /\ tab' \in [Tabs -> Tab]
        /\ tab'[t].refresh = tab[t].refresh
        /\ \A u \in Tabs \ {t} : tab'[u] = tab[u]
        /\ TokensIssued'
    <3>. HIDE DEF b
    <3>. QED BY <2>1, <2>2, <2>3, <2>4, <2>6, RefreshReplaced
  <2>8. CallsOK'
    BY <2>1, <2>7 DEF CallsOK
  <2>. QED BY <2>1, <2>7, <2>8 DEF ClientTypes, Token
<1>5. CASE /\ \A t \in Tabs, c \in Calls :
                /\ \A op \in {"data", "me", "logout"} : ~StartCall(t, c, op)
                /\ ~Reload(t, c)
           /\ \A t \in Tabs, s \in Sessions, p \in Tokens : ~SignIn(t, s, p)
           /\ Next
  <2>1. UNCHANGED <<storage, tab, call, reloads, blame, dropped>> /\ stale' \subseteq Tokens
    <3>1. CASE \E t1, t2 \in Tabs : ServerForks(t1, t2)
      BY <3>1 DEF ServerForks, clientVars, history, ClientTypes
    <3>2. CASE \E s \in Sessions : OpenSession(s) \/ EndSession(s)
      BY <3>2 DEF OpenSession, EndSession, clientVars, history, ClientTypes
    <3>3. CASE \E p \in Tokens : ExpireAccess(p)
      BY <3>3 DEF ExpireAccess, clientVars, history, ClientTypes
    <3>. QED BY <1>5, <3>1, <3>2, <3>3 DEF Next
  <2>2. TokensIssued'
    BY <2>1, LeavesRefreshes
  <2>. QED BY <2>1, <2>2 DEF ClientTypes, CallsOK
<1>. QED BY <1>1, <1>2, <1>3, <1>4, <1>5

LEMMA GoodInit == Init => Good
<1>. SUFFICES ASSUME Init PROVE Good
  OBVIOUS
<1>1. TypeOK
  BY Shapes, Zenon DEF Init, Chain!Init, TypeOK, Empty, Token, NoRefresh
<1>2. LiveOK /\ TokensIssued /\ CallsOK
  BY NamesAssumption
  DEF Init, Chain!Init, LiveOK, TokensIssued, CallsOK, RefreshOK, Empty, NoRefresh, NoCall
<1>. QED BY <1>1, <1>2 DEF Good

LEMMA GoodStep == Good /\ [Next]_vars => Good'
<1>. SUFFICES ASSUME Good, [Next]_vars PROVE Good'
  OBVIOUS
<1>1. ServerTypes' /\ LiveOK' /\ IssuedPersists
  BY ServerMoves, ServerSteps, TypesSplit DEF Good
<1>2. ClientTypes' /\ TokensIssued' /\ CallsOK'
  BY <1>1, CallSteps, RefreshSteps, OtherSteps
<1>3. TypeOK'
  BY <1>1, <1>2 DEF TypeOK, ServerTypes, ClientTypes, Tab
<1>. QED BY <1>1, <1>2, <1>3 DEF Good

-----------------------------------------------------------------------------
(* Every token is presented once *)

\* A token that may still be exchanged.
Usable(p) == p \in live[issued[p]] \/ status[issued[p]] # "open"

\* No two refreshes of two tabs overlapped and no reload cut one off.
Careful == blame \cap {"overlap", "reload"} = {}

\* What a tab may hold of a token p while it exchanges it or carries its successor.
HeldOnce(t) ==
  LET r == tab[t].refresh
  IN  /\ r.pc = "sent" => Usable(r.tok)
      /\ r.answer \in Tokens =>
           /\ Usable(r.answer)
           /\ storage.pair # r.answer
           /\ \A other \in Tabs : tab[other].refresh.tok # r.answer
      /\ r.pc # "none" =>
           \A other \in Tabs \ {t} :
             /\ tab[other].refresh.tok # r.tok
             /\ r.answer \in Tokens => tab[other].refresh.answer # r.answer

\* A spent token of an open session is stored only while a tab exchanges it.
StoredOnce ==
  storage.pair # None =>
    Usable(storage.pair) \/ \E t \in Tabs : tab[t].refresh.tok = storage.pair

TokensHeldOnce == StoredOnce /\ \A t \in Tabs : HeldOnce(t)

Replayless == Careful => "replay" \notin dropped /\ TokensHeldOnce

UsableAfter(p) == p \in live'[issued'[p]] \/ status'[issued'[p]] # "open"

\* Tokens issued before, other than those spent by the step, stay usable.
KeepsUsable(spent) ==
  \A p \in Tokens \ spent : issued[p] # None /\ Usable(p) => UsableAfter(p)

(* What a step of the server takes from the tokens. *)
LEMMA ServerKeeps ==
  ASSUME Good
  PROVE  /\ UNCHANGED chainVars => KeepsUsable({})
         /\ \A s \in Sessions : Chain!Open(s) => KeepsUsable({})
         /\ \A s \in Sessions : Chain!Fork(s) => KeepsUsable({})
         /\ \A s \in Sessions : Chain!End({s}) => KeepsUsable({})
         /\ \A s \in Sessions, p \in Tokens : Chain!Waste(s, p) => KeepsUsable({})
         /\ \A s \in Sessions, p \in Tokens : Chain!Extend(s, p) => KeepsUsable(live[s])
<1>. USE TypesSplit DEF Good, ServerTypes, KeepsUsable, Usable, UsableAfter
<1>1. UNCHANGED chainVars => KeepsUsable({})
  BY DEF chainVars
<1>2. ASSUME NEW s \in Sessions, Chain!Open(s)
      PROVE  KeepsUsable({})
  BY <1>2 DEF Chain!Open, LiveOK
<1>3. ASSUME NEW s \in Sessions, Chain!Fork(s)
      PROVE  KeepsUsable({})
  BY <1>3 DEF Chain!Fork
<1>4. ASSUME NEW s \in Sessions, Chain!End({s})
      PROVE  KeepsUsable({})
  BY <1>4 DEF Chain!End
<1>5. ASSUME NEW s \in Sessions, NEW p \in Tokens, Chain!Waste(s, p)
      PROVE  KeepsUsable({})
  BY <1>5 DEF Chain!Waste
<1>6. ASSUME NEW s \in Sessions, NEW p \in Tokens, Chain!Extend(s, p)
      PROVE  KeepsUsable(live[s])
  BY <1>6 DEF Chain!Extend
<1>. QED BY <1>1, <1>2, <1>3, <1>4, <1>5, <1>6

(* What the client has been blamed for stays. *)
LEMMA BlameGrows == ASSUME Good, [Next]_vars PROVE blame \subseteq blame'
<1>1. CASE UNCHANGED vars
  BY <1>1 DEF vars
<1>2. ASSUME NEW c \in Calls, CallProgress(c)
      PROVE  blame \subseteq blame'
  <2>1. CASE ServerAnswers(c) \/ Lose(c) \/ Expired(c)
    BY <2>1 DEF ServerAnswers, Lose, Expired, history
  <2>2. CASE Resolve(c) /\ call[c].op \in {"data", "me", "boot", "logout"}
    BY <2>2, Zenon DEF Resolve, Blame
  <2>3. CASE Reject(c) \/ AwaitRefresh(c)
    BY <2>3 DEF Reject, AwaitRefresh, GiveUp, Blame
  <2>4. call[c].op \in {"data", "me", "boot", "logout"}
    BY DEF Good, TypeOK, Call
  <2>. QED BY <1>2, <2>1, <2>2, <2>3, <2>4 DEF CallProgress, Deliver
<1>3. ASSUME NEW t \in Tabs, RefreshProgress(t)
      PROVE  blame \subseteq blame'
  BY <1>3, Zenon DEF RefreshProgress, ServerRefreshes, LoseRefresh, RefreshSucceeds, RefreshFails,
              history, Blame, GiveUp
<1>4. CASE /\ Next
           /\ \A c \in Calls : ~CallProgress(c)
           /\ \A t \in Tabs : ~RefreshProgress(t)
  BY <1>4, Zenon DEF Next, StartCall, Reload, SignIn, ServerForks, OpenSession, EndSession,
              ExpireAccess, history, Blame
<1>. QED BY <1>1, <1>2, <1>3, <1>4

LEMMA BlameStays == ASSUME Good, [Next]_vars PROVE Careful' => Careful
BY BlameGrows DEF Careful

(* A step that only gives tokens up. *)
GivesUp(t) ==
  LET old == tab[t].refresh
      new == tab'[t].refresh
  IN  \/ new = old
      \/ /\ new.pc # "sent" /\ new.answer \notin Tokens
         /\ new.tok \in {old.tok, None}

(* What the invariant says of the refreshes before and after a step. *)
LEMMA RefreshFacts ==
  ASSUME Good, Good'
  PROVE  /\ storage.pair \in Token
         /\ storage.pair # None => issued[storage.pair] # None
         /\ \A t \in Tabs :
              /\ tab[t].refresh \in Refresh /\ RefreshOK(tab[t].refresh, issued)
              /\ tab'[t].refresh \in Refresh /\ RefreshOK(tab'[t].refresh, issued')
BY DEF Good, TypeOK, TokensIssued

LEMMA Abandons ==
  ASSUME Good, Good', TokensHeldOnce, KeepsUsable({}),
         \A t \in Tabs : GivesUp(t),
         \/ storage'.pair = None
         \/ /\ storage'.pair = storage.pair
            /\ \A t \in Tabs : tab'[t].refresh.tok = tab[t].refresh.tok
  PROVE  TokensHeldOnce'
<1>1. StoredOnce'
  BY RefreshFacts DEF TokensHeldOnce, StoredOnce, KeepsUsable, Token, Usable, UsableAfter
<1>2. ASSUME NEW t \in Tabs
      PROVE  HeldOnce(t)'
  <2>. DEFINE old == tab[t].refresh
              new == tab'[t].refresh
  <2>0. /\ old \in Refresh /\ RefreshOK(old, issued) /\ HeldOnce(t)
        /\ new \in Refresh /\ RefreshOK(new, issued')
    BY RefreshFacts DEF TokensHeldOnce
  <2>1. ASSUME new.pc = "sent"
        PROVE  UsableAfter(new.tok)
    BY <2>0, <2>1 DEF GivesUp, HeldOnce, KeepsUsable, RefreshOK, Refresh, Token
  <2>2. ASSUME new.answer \in Tokens
        PROVE  /\ UsableAfter(new.answer)
               /\ storage'.pair # new.answer
               /\ \A other \in Tabs : tab'[other].refresh.tok # new.answer
    <3>1. new = old /\ issued[new.answer] # None
      BY <2>0, <2>2, NamesAssumption DEF GivesUp, RefreshOK, Refresh, Token
    <3>2. UsableAfter(new.answer)
      BY <2>0, <2>2, <3>1 DEF HeldOnce, KeepsUsable
    <3>3. storage'.pair # new.answer
      BY <2>0, <2>2, <3>1, NamesAssumption DEF HeldOnce
    <3>4. \A other \in Tabs : tab'[other].refresh.tok \in {tab[other].refresh.tok, None}
      BY DEF GivesUp
    <3>5. \A other \in Tabs : tab'[other].refresh.tok # new.answer
      BY <2>0, <2>2, <3>1, <3>4, NamesAssumption DEF HeldOnce
    <3>. QED BY <3>2, <3>3, <3>5
  <2>3. ASSUME new.pc # "none", NEW other \in Tabs \ {t}
        PROVE  /\ tab'[other].refresh.tok # new.tok
               /\ new.answer \in Tokens => tab'[other].refresh.answer # new.answer
    <3>1. new.tok = old.tok /\ new.tok # None /\ old.pc # "none"
      BY <2>0, <2>3 DEF GivesUp, RefreshOK, NoRefresh
    <3>2. tab'[other].refresh.tok # new.tok
      BY <2>0, <3>1 DEF GivesUp, HeldOnce
    <3>3. new.answer \in Tokens => tab'[other].refresh.answer # new.answer
      BY <2>0, <3>1 DEF GivesUp, HeldOnce
    <3>. QED BY <3>2, <3>3
  <2>. QED BY <2>1, <2>2, <2>3 DEF HeldOnce, Usable, UsableAfter
<1>. QED BY <1>1, <1>2 DEF TokensHeldOnce

(* The tokens of a step that leaves the refreshes and what is stored alone. *)
LEMMA LeavesTokens ==
  ASSUME Good, Good', TokensHeldOnce, KeepsUsable({}),
         \A t \in Tabs : tab'[t].refresh = tab[t].refresh,
         storage'.pair \in {storage.pair, None}
  PROVE  TokensHeldOnce'
BY Abandons DEF GivesUp

(* Every step of a call. *)
LEMMA CallsHold ==
  ASSUME Good, Good', TokensHeldOnce, Careful', NEW c \in Calls, CallProgress(c)
  PROVE  TokensHeldOnce'
<1>. DEFINE t == call[c].tab
<1>0. call[c] \in Call /\ tab \in [Tabs -> Tab]
  BY TypesSplit DEF Good, ClientTypes
<1>1. CASE ServerAnswers(c)
  <2>1. KeepsUsable({})
    <3>1. CASE UNCHANGED chainVars
      BY <3>1, ServerKeeps
    <3>2. CASE Chain!End({issued[call[c].pair]}) /\ Admitted(call[c].pair)
      <4>1. issued[call[c].pair] \in Sessions \cup {None}
        BY <1>0, <3>2 DEF Admitted, Good, TypeOK, Call, Token
      <4>2. CASE issued[call[c].pair] = None
        <5>1. UNCHANGED chainVars
          BY <3>2, <4>2, NamesAssumption DEF Chain!End, chainVars, Good, TypeOK
        <5>. QED BY <5>1, ServerKeeps
      <4>. QED BY <3>2, <4>1, <4>2, ServerKeeps
    <3>. QED BY <1>1, <3>1, <3>2 DEF ServerAnswers
  <2>2. UNCHANGED <<storage, tab>>
    BY <1>1 DEF ServerAnswers
  <2>. QED BY <2>1, <2>2, LeavesTokens
<1>2. CASE Lose(c)
  <2>1. UNCHANGED <<chainVars, storage, tab>>
    BY <1>2 DEF Lose
  <2>. QED BY <2>1, ServerKeeps, LeavesTokens
<1>3. CASE Resolve(c) \/ Reject(c) \/ Expired(c)
  <2>1. KeepsUsable({})
    BY <1>3, ServerKeeps DEF Resolve, Reject, Expired
  <2>2. call[c].op \in {"data", "me", "boot", "logout"}
    BY <1>0 DEF Call
  <2>3. \/ UNCHANGED <<storage, tab>>
        \/ ClearSession(t)
        \/ /\ storage' = [storage EXCEPT !.user = Owner(call[c].pair)]
           /\ tab' = [tab EXCEPT ![t].user = Owner(call[c].pair),
                                 ![t].loading = @ /\ call[c].op # "boot"]
    <3>1. CASE Resolve(c)
      BY <2>2, <3>1 DEF Resolve
    <3>2. CASE Reject(c) \/ Expired(c)
      BY <3>2 DEF Reject, Expired
    <3>. QED BY <1>3, <3>1, <3>2
  <2>4. storage'.pair \in {storage.pair, None}
    BY <2>3 DEF ClearSession, Empty, Good, TypeOK
  <2>5. \A u \in Tabs : tab'[u].refresh = tab[u].refresh
    BY <1>0, <2>3 DEF ClearSession, Tab
  <2>. QED BY <2>1, <2>4, <2>5, LeavesTokens
<1>4. CASE AwaitRefresh(c)
  <2>. DEFINE sent == [pc |-> "sent", tok |-> storage.pair, answer |-> None]
  <2>1. storage.pair \in Tokens /\ storage' = storage /\ UNCHANGED chainVars
    BY <1>4, RefreshFacts DEF AwaitRefresh, Token
  <2>. PICK u \in Tabs : u = t
    BY <1>4 DEF AwaitRefresh, Good, CallsOK
  <2>2. KeepsUsable({})
    BY <2>1, ServerKeeps
  <2>3. CASE tab[u].refresh.pc # "none"
    <3>1. tab' = tab
      BY <1>4, <2>3 DEF AwaitRefresh, JoinRefresh
    <3>. QED BY <2>1, <2>2, <3>1, LeavesTokens
  <2>4. CASE tab[u].refresh.pc = "none"
    <3>1. tab' = [tab EXCEPT ![u].refresh = sent]
      BY <1>4, <2>4 DEF AwaitRefresh, JoinRefresh
    <3>2. tab'[u].refresh = sent /\ \A other \in Tabs \ {u} : tab'[other] = tab[other]
      BY <1>0, <2>1, <3>1 DEF Tab
    <3>3. \A other \in Tabs \ {u} : tab[other].refresh.tok # storage.pair
      <4>1. Blame("overlap", Overlaps(u))
        BY <1>4 DEF AwaitRefresh
      <4>2. ~Overlaps(u)
        BY <4>1 DEF Blame, Careful
      <4>. QED BY <2>4, <4>2 DEF Overlaps
    <3>4. tab[u].refresh = NoRefresh
      BY <2>1, <2>4, RefreshFacts DEF RefreshOK
    <3>5. Usable(storage.pair)
      BY <2>1, <3>3, <3>4, NamesAssumption DEF TokensHeldOnce, StoredOnce, NoRefresh
    <3>6. StoredOnce'
      BY <2>1, <3>5 DEF StoredOnce, Usable, chainVars
    <3>7. HeldOnce(u)'
      BY <2>1, <3>2, <3>3, <3>5, NamesAssumption DEF HeldOnce, Usable, chainVars
    <3>8. ASSUME NEW w \in Tabs \ {u}
          PROVE  HeldOnce(w)'
      <4>1. HeldOnce(w) /\ tab'[w] = tab[w] /\ tab[w].refresh.tok # storage.pair
        BY <3>2, <3>3 DEF TokensHeldOnce
      <4>2. tab[w].refresh.answer \in Tokens => storage.pair # tab[w].refresh.answer
        BY <4>1 DEF HeldOnce
      <4>3. \A other \in Tabs : tab'[other].refresh.tok \in {tab[other].refresh.tok, storage.pair}
        BY <3>2
      <4>4. \A other \in Tabs : tab'[other].refresh.answer \in {tab[other].refresh.answer, None}
        BY <3>2
      <4>5. UNCHANGED <<status, live, issued, storage>>
        BY <2>1 DEF chainVars
      <4>. QED BY <4>1, <4>2, <4>3, <4>4, <4>5, NamesAssumption DEF HeldOnce, Usable
    <3>. QED BY <3>6, <3>7, <3>8 DEF TokensHeldOnce
  <2>. QED BY <2>3, <2>4
<1>. QED BY <1>1, <1>2, <1>3, <1>4 DEF CallProgress, Deliver

(* Every step that is neither of a call nor of a refresh. *)
LEMMA OthersHold ==
  ASSUME Good, Good', TokensHeldOnce, Careful', [Next]_vars,
         \A c \in Calls : ~CallProgress(c), \A t \in Tabs : ~RefreshProgress(t)
  PROVE  TokensHeldOnce'
<1>0. tab \in [Tabs -> Tab]
  BY TypesSplit DEF Good, ClientTypes
<1>1. CASE UNCHANGED <<chainVars, storage, tab>>
  BY <1>1, ServerKeeps, LeavesTokens
<1>2. ASSUME NEW t \in Tabs, NEW c \in Calls, Reload(t, c)
      PROVE  TokensHeldOnce'
  <2>1. tab[t].refresh.pc = "none"
    BY <1>2 DEF Reload, Blame, Careful
  <2>2. tab[t].refresh = NoRefresh
    BY <2>1, RefreshFacts DEF RefreshOK
  <2>3. \A u \in Tabs : tab'[u].refresh = tab[u].refresh
    BY <1>0, <1>2, <2>2 DEF Reload
  <2>4. UNCHANGED <<chainVars, storage>>
    BY <1>2 DEF Reload
  <2>. QED BY <2>3, <2>4, ServerKeeps, LeavesTokens
<1>3. ASSUME NEW t \in Tabs, NEW s \in Sessions, NEW p \in Tokens, SignIn(t, s, p)
      PROVE  TokensHeldOnce'
  <2>1. /\ \A u \in Tabs : tab'[u].refresh = tab[u].refresh
        /\ storage'.pair = p /\ issued[p] = None
        /\ Chain!Extend(s, p) /\ \A q \in Tokens : issued[q] # s
    BY <1>0, <1>3 DEF SignIn, Tab, Chain!Extend
  <2>2. live[s] = {}
    BY <2>1 DEF Good, LiveOK, TypeOK
  <2>3. KeepsUsable({})
    BY <2>1, <2>2, ServerKeeps
  <2>4. UsableAfter(p)
    BY <2>1 DEF Good, TypeOK, Chain!Extend, UsableAfter
  <2>5. StoredOnce'
    BY <2>1, <2>4 DEF StoredOnce, Usable, UsableAfter
  <2>6. ASSUME NEW u \in Tabs
        PROVE  HeldOnce(u)'
    <3>. DEFINE r == tab[u].refresh
    <3>1. HeldOnce(u) /\ r \in Refresh /\ RefreshOK(r, issued)
      BY RefreshFacts DEF TokensHeldOnce
    <3>2. r.pc = "sent" => UsableAfter(r.tok)
      BY <2>3, <3>1 DEF HeldOnce, KeepsUsable, RefreshOK, Refresh, Token
    <3>3. r.answer \in Tokens => UsableAfter(r.answer) /\ p # r.answer
      BY <2>1, <2>3, <3>1, NamesAssumption DEF HeldOnce, KeepsUsable, RefreshOK
    <3>. QED BY <2>1, <3>1, <3>2, <3>3 DEF HeldOnce, Usable, UsableAfter
  <2>. QED BY <2>5, <2>6 DEF TokensHeldOnce
<1>4. ASSUME NEW t1 \in Tabs, NEW t2 \in Tabs, ServerForks(t1, t2)
      PROVE  TokensHeldOnce'
  <2>1. tab[t1].refresh.tok \in Tokens /\ issued[tab[t1].refresh.tok] \in Sessions
    BY <1>4, RefreshFacts, NamesAssumption
    DEF ServerForks, RefreshOK, Refresh, Token, Good, TypeOK
  <2>2. KeepsUsable({})
    BY <1>4, <2>1, ServerKeeps DEF ServerForks
  <2>3. UNCHANGED <<storage, tab>>
    BY <1>4 DEF ServerForks, clientVars
  <2>. QED BY <2>2, <2>3, LeavesTokens
<1>5. ASSUME NEW s \in Sessions, OpenSession(s) \/ EndSession(s)
      PROVE  TokensHeldOnce'
  <2>1. KeepsUsable({})
    BY <1>5, ServerKeeps DEF OpenSession, EndSession
  <2>2. UNCHANGED <<storage, tab>>
    BY <1>5 DEF OpenSession, EndSession, clientVars
  <2>. QED BY <2>1, <2>2, LeavesTokens
<1>6. CASE \/ UNCHANGED vars
           \/ \E t \in Tabs, c \in Calls, op \in {"data", "me", "logout"} : StartCall(t, c, op)
           \/ \E p \in Tokens : ExpireAccess(p)
  <2>1. UNCHANGED <<chainVars, storage, tab>>
    BY <1>6 DEF vars, chainVars, StartCall, ExpireAccess, clientVars
  <2>. QED BY <1>1, <2>1
<1>. QED BY <1>2, <1>3, <1>4, <1>5, <1>6 DEF Next

(* Every step of a refresh: the one kind of step that may be a replay. *)
LEMMA RefreshesHold ==
  ASSUME Good, Good', TokensHeldOnce, Careful', NEW t \in Tabs, RefreshProgress(t)
  PROVE  TokensHeldOnce' /\ ("replay" \in dropped' => "replay" \in dropped)
<1>. DEFINE r == tab[t].refresh
            s == issued[r.tok]
<1>0. /\ tab \in [Tabs -> Tab] /\ tab[t] \in Tab
      /\ r \in Refresh /\ RefreshOK(r, issued) /\ HeldOnce(t)
  BY TypesSplit DEF Good, ClientTypes, TokensIssued, TokensHeldOnce, Tab
<1>1. CASE LoseRefresh(t)
  <2>1. AnswerRefresh(t, "failed") /\ UNCHANGED <<chainVars, storage, dropped>>
    BY <1>1 DEF LoseRefresh, history
  <2>2. /\ tab' = [tab EXCEPT ![t] = [tab[t] EXCEPT !.refresh = AnsweredRefresh(t, "failed")]]
        /\ [tab[t] EXCEPT !.refresh = AnsweredRefresh(t, "failed")].refresh
             = AnsweredRefresh(t, "failed")
        /\ AnsweredRefresh(t, "failed").pc = "answered"
        /\ AnsweredRefresh(t, "failed").tok = r.tok
        /\ AnsweredRefresh(t, "failed").answer = "failed"
    BY <2>1, AnswerStored
  <2>3. /\ \A u \in Tabs : GivesUp(u)
        /\ \A u \in Tabs : tab'[u].refresh.tok = tab[u].refresh.tok
    BY <1>0, <2>2, NamesAssumption DEF GivesUp
  <2>. QED BY <2>1, <2>3, ServerKeeps, Abandons
<1>2. CASE RefreshFails(t)
  <2>1. /\ storage'.pair = None /\ UNCHANGED chainVars
        /\ tab' = [tab EXCEPT ![t].user = None, ![t].loading = FALSE, ![t].refresh = NoRefresh]
        /\ r.answer \notin Tokens
    BY <1>2 DEF RefreshFails, Forget, Empty
  <2>2. /\ tab'[t].refresh = NoRefresh
        /\ \A u \in Tabs \ {t} : tab'[u] = tab[u]
    BY <1>0, <2>1 DEF Tab
  <2>3. \A u \in Tabs : GivesUp(u)
    BY <2>2, NamesAssumption DEF GivesUp, NoRefresh
  <2>4. "replay" \in dropped' => "replay" \in dropped
    <3>1. r.answer # "replay"
      BY <1>0, <2>1, NamesAssumption DEF Refresh, Token
    <3>. QED BY <1>2, <3>1 DEF RefreshFails, GiveUp
  <2>. QED BY <2>1, <2>3, <2>4, ServerKeeps, Abandons
<1>3. CASE RefreshSucceeds(t)
  <2>. DEFINE p == r.answer
  <2>1. /\ p \in Tokens /\ storage'.pair = p /\ UNCHANGED <<chainVars, dropped>>
        /\ tab' = [tab EXCEPT ![t].refresh = NoRefresh] /\ r.pc = "answered"
    BY <1>3, Zenon DEF RefreshSucceeds
  <2>2. /\ tab'[t].refresh = NoRefresh
        /\ \A u \in Tabs \ {t} : tab'[u] = tab[u]
    BY <1>0, <2>1 DEF Tab
  <2>3. /\ Usable(p)
        /\ \A u \in Tabs : tab[u].refresh.tok # p
        /\ \A u \in Tabs \ {t} : tab[u].refresh.answer # p
    BY <1>0, <2>1 DEF HeldOnce
  <2>4. StoredOnce'
    BY <2>1, <2>3 DEF StoredOnce, Usable, chainVars
  <2>5. HeldOnce(t)'
    BY <2>2, NamesAssumption DEF HeldOnce, NoRefresh
  <2>6. ASSUME NEW u \in Tabs \ {t}
        PROVE  HeldOnce(u)'
    <3>1. HeldOnce(u) /\ tab'[u] = tab[u] /\ tab[u].refresh.answer # p
          /\ RefreshOK(tab[u].refresh, issued)
      BY <2>2, <2>3, RefreshFacts DEF TokensHeldOnce
    <3>2. \A w \in Tabs : tab'[w].refresh.tok \in {tab[w].refresh.tok, None}
      BY <2>2 DEF NoRefresh
    <3>3. \A w \in Tabs : tab'[w].refresh.answer \in {tab[w].refresh.answer, None}
      BY <2>2 DEF NoRefresh
    <3>4. UNCHANGED <<status, live, issued>>
      BY <2>1 DEF chainVars
    <3>. QED BY <2>1, <3>1, <3>2, <3>3, <3>4, NamesAssumption DEF HeldOnce, Usable, RefreshOK
  <2>. QED BY <2>1, <2>4, <2>5, <2>6 DEF TokensHeldOnce
<1>4. CASE ServerRefreshes(t)
  <2>1. /\ r.pc = "sent" /\ r.tok \in Tokens /\ s \in Sessions /\ storage' = storage
        /\ Usable(r.tok)
    BY <1>0, <1>4, NamesAssumption
    DEF ServerRefreshes, RefreshOK, Refresh, Token, HeldOnce, Good, TypeOK
  <2>2. CASE /\ AnswerRefresh(t, "denied")
             /\ (status[s] = "forked" /\ Chain!End({s})) \/ UNCHANGED chainVars
             /\ dropped' = dropped
    <3>1. KeepsUsable({})
      BY <2>1, <2>2, ServerKeeps
    <3>2. /\ tab' = [tab EXCEPT ![t] = [tab[t] EXCEPT !.refresh = AnsweredRefresh(t, "denied")]]
          /\ [tab[t] EXCEPT !.refresh = AnsweredRefresh(t, "denied")].refresh
               = AnsweredRefresh(t, "denied")
          /\ AnsweredRefresh(t, "denied").pc = "answered"
          /\ AnsweredRefresh(t, "denied").tok = r.tok
          /\ AnsweredRefresh(t, "denied").answer = "denied"
      BY <2>2, AnswerStored
    <3>3. /\ \A u \in Tabs : GivesUp(u)
          /\ \A u \in Tabs : tab'[u].refresh.tok = tab[u].refresh.tok
      BY <1>0, <3>2, NamesAssumption DEF GivesUp
    <3>. QED BY <2>1, <2>2, <3>1, <3>3, Abandons
  <2>3. ASSUME NEW p \in Tokens, AnswerRefresh(t, p), dropped' = dropped,
               \/ r.tok \in live[s] /\ Chain!Extend(s, p)
               \/ status[s] = "forked" /\ Chain!Waste(s, p)
        PROVE  TokensHeldOnce'
    <3>1. /\ tab' = [tab EXCEPT ![t] = [tab[t] EXCEPT !.refresh = AnsweredRefresh(t, p)]]
          /\ [tab[t] EXCEPT !.refresh = AnsweredRefresh(t, p)].refresh = AnsweredRefresh(t, p)
          /\ AnsweredRefresh(t, p).pc = "answered"
          /\ AnsweredRefresh(t, p).tok = r.tok
          /\ AnsweredRefresh(t, p).answer = p
      <4>1. p \in Tokens \cup {"denied", "failed"} /\ AnswerRefresh(t, p)
        BY <2>3
      <4>. QED BY <4>1, AnswerStored
    <3>2. /\ tab'[t].refresh.pc = "answered" /\ tab'[t].refresh.tok = r.tok
          /\ tab'[t].refresh.answer = p
          /\ \A u \in Tabs \ {t} : tab'[u] = tab[u]
      BY <1>0, <3>1
    <3>3. issued[p] = None /\ issued'[p] = s /\ UsableAfter(p)
      BY <2>1, <2>3 DEF Chain!Extend, Chain!Waste, UsableAfter, Good, TypeOK
    <3>4. \A q \in Tokens \ {r.tok} : issued[q] # None /\ Usable(q) => UsableAfter(q)
      <4>1. CASE status[s] = "forked" /\ Chain!Waste(s, p)
        BY <2>1, <4>1, ServerKeeps DEF KeepsUsable
      <4>2. CASE r.tok \in live[s] /\ Chain!Extend(s, p)
        <5>1. live[s] \subseteq {r.tok}
          BY <2>1, <4>2 DEF Good, LiveOK
        <5>. QED BY <2>1, <4>2, <5>1, ServerKeeps DEF KeepsUsable
      <4>. QED BY <2>3, <4>1, <4>2
    <3>5. /\ \A u \in Tabs : tab'[u].refresh.tok = tab[u].refresh.tok
          /\ \A u \in Tabs : tab[u].refresh.tok # p
          /\ \A u \in Tabs : tab[u].refresh.answer # p
          /\ storage.pair # p
      <4>1. \A u \in Tabs : tab'[u].refresh.tok = tab[u].refresh.tok
        BY <3>2
      <4>2. /\ \A u \in Tabs : RefreshOK(tab[u].refresh, issued)
            /\ storage.pair # None => issued[storage.pair] # None
        BY RefreshFacts
      <4>3. \A u \in Tabs : tab[u].refresh.tok # p /\ tab[u].refresh.answer # p
        BY <3>3, <4>2, NamesAssumption DEF RefreshOK, NoRefresh
      <4>4. storage.pair # p
        BY <3>3, <4>2, NamesAssumption
      <4>. QED BY <4>1, <4>3, <4>4
    <3>6. StoredOnce'
      <4>1. storage.pair \in Token /\ (storage.pair # None => issued[storage.pair] # None)
        BY RefreshFacts
      <4>2. StoredOnce
        BY DEF TokensHeldOnce
      <4>3. CASE storage.pair = r.tok
        BY <2>1, <3>2, <4>3 DEF StoredOnce
      <4>4. CASE storage.pair # r.tok
        BY <2>1, <3>4, <3>5, <4>1, <4>2, <4>4 DEF StoredOnce, Token, Usable, UsableAfter
      <4>. QED BY <4>3, <4>4
    <3>7. HeldOnce(t)'
      <4>1. \A other \in Tabs \ {t} : tab[other].refresh.tok # r.tok
        BY <1>0, <2>1 DEF HeldOnce
      <4>. QED BY <2>1, <3>2, <3>3, <3>5, <4>1 DEF HeldOnce, Usable, UsableAfter
    <3>8. ASSUME NEW u \in Tabs \ {t}
          PROVE  HeldOnce(u)'
      <4>. DEFINE other == tab[u].refresh
      <4>1. /\ HeldOnce(u) /\ tab'[u] = tab[u]
            /\ other \in Refresh /\ RefreshOK(other, issued)
        BY <3>2, RefreshFacts DEF TokensHeldOnce
      <4>2. other.pc = "sent" => UsableAfter(other.tok)
        BY <3>4, <4>1 DEF HeldOnce, RefreshOK, Refresh, Token
      <4>3. other.answer \in Tokens => UsableAfter(other.answer)
        BY <3>4, <4>1 DEF HeldOnce, RefreshOK, NoRefresh
      <4>4. other.answer \in Tokens =>
              /\ storage'.pair # other.answer
              /\ \A w \in Tabs : tab'[w].refresh.tok # other.answer
        BY <2>1, <3>5, <4>1 DEF HeldOnce
      <4>5. ASSUME other.pc # "none", NEW w \in Tabs \ {u}
            PROVE  /\ tab'[w].refresh.tok # other.tok
                   /\ other.answer \in Tokens => tab'[w].refresh.answer # other.answer
        BY <3>2, <3>5, <4>1, <4>5 DEF HeldOnce
      <4>. QED BY <4>1, <4>2, <4>3, <4>4, <4>5 DEF HeldOnce, Usable, UsableAfter
    <3>. QED BY <3>6, <3>7, <3>8 DEF TokensHeldOnce
  <2>4. \/ \E p \in Tokens :
             /\ AnswerRefresh(t, p) /\ dropped' = dropped
             /\ \/ r.tok \in live[s] /\ Chain!Extend(s, p)
                \/ status[s] = "forked" /\ Chain!Waste(s, p)
        \/ /\ AnswerRefresh(t, "denied")
           /\ (status[s] = "forked" /\ Chain!End({s})) \/ UNCHANGED chainVars
           /\ dropped' = dropped
    BY <1>4, <2>1, Zenon DEF ServerRefreshes, Usable
  <2>. QED BY <2>2, <2>3, <2>4, Zenon
<1>. QED BY <1>1, <1>2, <1>3, <1>4 DEF RefreshProgress

LEMMA ReplaylessInit == Init => Replayless
BY NamesAssumption
DEF Init, Replayless, TokensHeldOnce, StoredOnce, HeldOnce, Empty, NoRefresh

LEMMA ReplaylessStep == Good /\ Good' /\ Replayless /\ [Next]_vars => Replayless'
<1>. SUFFICES ASSUME Good, Good', Replayless, [Next]_vars, Careful'
              PROVE  "replay" \notin dropped' /\ TokensHeldOnce'
  BY DEF Replayless
<1>1. TokensHeldOnce /\ "replay" \notin dropped
  BY BlameStays DEF Replayless
<1>2. ASSUME NEW c \in Calls, CallProgress(c)
      PROVE  "replay" \notin dropped' /\ TokensHeldOnce'
  <2>1. "replay" \notin dropped'
    <3>1. call[c].answer # "replay"
      BY NamesAssumption DEF Good, TypeOK, Call
    <3>2. CASE ServerAnswers(c) \/ Lose(c) \/ Resolve(c) \/ Expired(c) \/ AwaitRefresh(c)
      BY <1>1, <3>2 DEF ServerAnswers, Lose, Resolve, Expired, AwaitRefresh, history
    <3>3. CASE Reject(c)
      BY <1>1, <3>1, <3>3 DEF Reject, GiveUp
    <3>. QED BY <1>2, <3>2, <3>3 DEF CallProgress, Deliver
  <2>. QED BY <1>1, <1>2, <2>1, CallsHold
<1>3. ASSUME NEW t \in Tabs, RefreshProgress(t)
      PROVE  "replay" \notin dropped' /\ TokensHeldOnce'
  BY <1>1, <1>3, RefreshesHold
<1>4. CASE (\A c \in Calls : ~CallProgress(c)) /\ (\A t \in Tabs : ~RefreshProgress(t))
  <2>1. dropped' = dropped
    BY <1>4 DEF Next, vars, StartCall, Reload, SignIn, ServerForks, OpenSession,
                EndSession, ExpireAccess, history
  <2>. QED BY <1>1, <1>4, <2>1, OthersHold
<1>. QED BY <1>2, <1>3, <1>4

-----------------------------------------------------------------------------
(* A refusal means that the session has ended *)

\* What a refusal says, of a refresh and of a replayed call; neither has a token that
\* could have expired.  The parameters are issued, status and stale.
RefreshDenial(r, of, st, old) ==
  /\ r.answer \in Tokens => r.answer \notin old
  /\ r.answer = "denied" => st[of[r.tok]] = "ended"

CallDenial(k, of, st, old) ==
  /\ k.answer # None => k.pc = "answered"
  /\ k.retried =>
       /\ k.pair # None /\ k.pair \notin old /\ of[k.pair] # None
       /\ k.answer = "denied" => st[of[k.pair]] = "ended"

Denials ==
  /\ \A p \in stale : issued[p] # None
  /\ \A t \in Tabs : RefreshDenial(tab[t].refresh, issued, status, stale)
  /\ \A c \in Calls : CallDenial(call[c], issued, status, stale)

EndedStays == \A s \in Sessions : status[s] = "ended" => status'[s] = "ended"

(* An ended session stays ended. *)
LEMMA ServerEnds ==
  ASSUME ServerTypes, [Chain!Next]_chainVars
  PROVE  EndedStays
BY DEF ServerTypes, EndedStays, chainVars, Chain!Next, Chain!Open, Chain!Spend, Chain!Fork,
       Chain!Extend, Chain!Waste, Chain!End

LEMMA ServerGoesOn ==
  ASSUME Good, [Next]_vars
  PROVE  IssuedPersists /\ EndedStays
BY ServerMoves, ServerSteps, ServerEnds, TypesSplit DEF Good

(* What a refusal says stays true, while no token expires. *)
LEMMA DenialsKept ==
  ASSUME Good, IssuedPersists, EndedStays, stale' = stale
  PROVE  /\ \A r \in Refresh :
              RefreshOK(r, issued) /\ RefreshDenial(r, issued, status, stale)
                => RefreshDenial(r, issued', status', stale')
         /\ \A k \in Call :
              CallDenial(k, issued, status, stale) => CallDenial(k, issued', status', stale')
<1>1. \A p \in Tokens : issued[p] # None /\ status[issued[p]] = "ended"
                          => issued'[p] # None /\ status'[issued'[p]] = "ended"
  BY DEF IssuedPersists, EndedStays, Good, TypeOK
<1>2. ASSUME NEW r \in Refresh, RefreshOK(r, issued), RefreshDenial(r, issued, status, stale)
      PROVE  RefreshDenial(r, issued', status', stale')
  <2>1. r.answer = "denied" => r.tok \in Tokens /\ issued[r.tok] # None
    BY <1>2, NamesAssumption DEF RefreshOK, Refresh, Token
  <2>. QED BY <1>1, <1>2, <2>1 DEF RefreshDenial
<1>3. ASSUME NEW k \in Call, CallDenial(k, issued, status, stale)
      PROVE  CallDenial(k, issued', status', stale')
  <2>1. k.retried => k.pair \in Tokens /\ issued[k.pair] # None
    BY <1>3 DEF CallDenial, Call, Token
  <2>. QED BY <1>1, <1>3, <2>1 DEF CallDenial, IssuedPersists
<1>. QED BY <1>2, <1>3

(* The states a step leaves a refresh or a call in that no refusal is about. *)
LEMMA NoDenial ==
  ASSUME NEW of, NEW st, NEW old
  PROVE  /\ \A r : r.answer \in {None, "failed"} => RefreshDenial(r, of, st, old)
         /\ \A k : k.answer = None /\ ~k.retried => CallDenial(k, of, st, old)
BY NamesAssumption DEF RefreshDenial, CallDenial

(* A step that leaves every refresh and every call as it was, or as one no refusal is
   about. *)
LEMMA LeavesDenials ==
  ASSUME Good, Denials, IssuedPersists, EndedStays, stale' = stale,
         \A t \in Tabs : \/ tab'[t].refresh = tab[t].refresh
                         \/ tab'[t].refresh.answer \in {None, "failed"},
         \A c \in Calls : \/ call'[c] = call[c]
                          \/ call'[c].answer = None /\ ~call'[c].retried
  PROVE  Denials'
<1>1. \A p \in stale' : issued'[p] # None
  BY DEF Denials, IssuedPersists, Good, TypeOK
<1>2. ASSUME NEW t \in Tabs
      PROVE  RefreshDenial(tab'[t].refresh, issued', status', stale')
  <2>1. tab[t].refresh \in Refresh /\ RefreshOK(tab[t].refresh, issued)
    BY DEF Good, TypeOK, TokensIssued
  <2>. QED BY <2>1, NoDenial, DenialsKept DEF Denials
<1>3. ASSUME NEW c \in Calls
      PROVE  CallDenial(call'[c], issued', status', stale')
  <2>1. call[c] \in Call
    BY DEF Good, TypeOK
  <2>. QED BY <2>1, NoDenial, DenialsKept DEF Denials
<1>. QED BY <1>1, <1>2, <1>3 DEF Denials

LEMMA CallDenials ==
  ASSUME Good, Denials, IssuedPersists, EndedStays, NEW c \in Calls, CallProgress(c)
  PROVE  Denials'
<1>0. /\ tab \in [Tabs -> Tab] /\ call \in [Calls -> Call] /\ call[c] \in Call
      /\ CallDenial(call[c], issued, status, stale)
  BY TypesSplit DEF Good, ClientTypes, Denials
<1>1. CASE ServerAnswers(c) \/ Lose(c)
  <2>1. PICK answer \in {"ok", "failed", "denied"} :
          /\ Answer(c, answer) /\ UNCHANGED <<stale, tab>>
          /\ answer = "denied" => ~Admitted(call[c].pair) /\ UNCHANGED chainVars
    BY <1>1, NamesAssumption DEF ServerAnswers, Lose
  <2>. DEFINE answered == [call[c] EXCEPT !.pc = "answered", !.answer = answer]
  <2>2. /\ call'[c] = answered /\ \A b \in Calls \ {c} : call'[b] = call[b]
        /\ answered.pc = "answered" /\ answered.answer = answer
        /\ answered.pair = call[c].pair /\ answered.retried = call[c].retried
    BY <1>0, <2>1 DEF Answer, Call
  <2>. HIDE DEF answered
  <2>3. CallDenial(answered, issued', status', stale')
    <3>1. CallDenial(call[c], issued', status', stale')
      BY <1>0, <2>1, DenialsKept
    <3>2. answer = "denied" /\ call[c].retried => status'[issued'[call[c].pair]] = "ended"
      BY <1>0, <2>1 DEF Admitted, CallDenial, chainVars
    <3>. QED BY <2>2, <3>1, <3>2 DEF CallDenial
  <2>4. ASSUME NEW b \in Calls
        PROVE  CallDenial(call'[b], issued', status', stale')
    <3>1. CASE b = c
      BY <2>2, <2>3, <3>1
    <3>2. CASE b # c
      BY <1>0, <2>1, <2>2, <3>2, DenialsKept DEF Denials
    <3>. QED BY <3>1, <3>2
  <2>5. ASSUME NEW t \in Tabs
        PROVE  RefreshDenial(tab'[t].refresh, issued', status', stale')
    BY <2>1, DenialsKept DEF Denials, Good, TypeOK, TokensIssued
  <2>6. \A p \in stale' : issued'[p] # None
    BY <2>1 DEF Denials, IssuedPersists, Good, TypeOK
  <2>. QED BY <2>4, <2>5, <2>6 DEF Denials
<1>2. CASE Resolve(c) \/ Reject(c) \/ Expired(c)
  <2>1. call' = [call EXCEPT ![c] = NoCall] /\ stale' = stale
    BY <1>2 DEF Resolve, Reject, Expired, Settle
  <2>2. \A b \in Calls : call'[b] = call[b] \/ call'[b] = NoCall
    BY <1>0, <2>1
  <2>3. NoCall.answer = None /\ ~NoCall.retried
    BY DEF NoCall
  <2>4. \A t \in Tabs : tab'[t].refresh = tab[t].refresh
    <3>1. call[c].op \in {"data", "me", "boot", "logout"}
      BY <1>0 DEF Call
    <3>2. PICK b \in {call[c].tab}, u \in Sessions \cup {None}, l \in BOOLEAN :
            tab' = tab \/ tab' = [tab EXCEPT ![b].user = u, ![b].loading = l]
      <4>1. \/ tab' = tab
            \/ ClearSession(call[c].tab)
            \/ tab' = [tab EXCEPT ![call[c].tab].user = Owner(call[c].pair),
                                  ![call[c].tab].loading = @ /\ call[c].op # "boot"]
        BY <1>2, <3>1 DEF Resolve, Reject, Expired
      <4>2. Owner(call[c].pair) \in Sessions \cup {None}
        BY <1>0, Owners DEF Call
      <4>. QED BY <4>1, <4>2 DEF ClearSession
    <3>. QED BY <1>0, <3>2 DEF Tab
  <2>. QED BY <2>1, <2>2, <2>3, <2>4, LeavesDenials
<1>3. CASE AwaitRefresh(c)
  <2>. DEFINE t == call[c].tab
              sent == [pc |-> "sent", tok |-> storage.pair, answer |-> None]
  <2>1. /\ call' = [call EXCEPT ![c].pc = "awaiting", ![c].answer = None]
        /\ ~call[c].retried /\ stale' = stale
        /\ tab' = tab \/ tab' = [tab EXCEPT ![t].refresh = sent]
    BY <1>3 DEF AwaitRefresh, JoinRefresh
  <2>2. \A b \in Calls :
          \/ call'[b] = call[b]
          \/ call'[b].answer = None /\ ~call'[b].retried
    BY <1>0, <2>1 DEF Call
  <2>3. \A b \in Tabs : tab'[b].refresh = tab[b].refresh \/ tab'[b].refresh = sent
    BY <1>0, <2>1 DEF Tab
  <2>4. sent.answer = None
    OBVIOUS
  <2>. HIDE DEF sent
  <2>. QED BY <2>1, <2>2, <2>3, <2>4, LeavesDenials
<1>. QED BY <1>1, <1>2, <1>3 DEF CallProgress, Deliver

LEMMA RefreshDenials ==
  ASSUME Good, Denials, IssuedPersists, EndedStays, NEW t \in Tabs, RefreshProgress(t)
  PROVE  Denials'
<1>. DEFINE r == tab[t].refresh
            s == issued[r.tok]
<1>0. /\ tab \in [Tabs -> Tab] /\ tab[t] \in Tab /\ call \in [Calls -> Call]
      /\ r \in Refresh /\ RefreshOK(r, issued) /\ RefreshDenial(r, issued, status, stale)
  BY TypesSplit DEF Good, ClientTypes, TokensIssued, Denials, Tab
<1>1. CASE LoseRefresh(t)
  <2>1. AnswerRefresh(t, "failed") /\ UNCHANGED <<stale, call>>
    BY <1>1 DEF LoseRefresh
  <2>2. /\ tab' = [tab EXCEPT ![t] = [tab[t] EXCEPT !.refresh = AnsweredRefresh(t, "failed")]]
        /\ [tab[t] EXCEPT !.refresh = AnsweredRefresh(t, "failed")].refresh
             = AnsweredRefresh(t, "failed")
        /\ AnsweredRefresh(t, "failed").answer = "failed"
    BY <2>1, AnswerStored
  <2>3. \A u \in Tabs : tab'[u].refresh = tab[u].refresh \/ tab'[u].refresh.answer = "failed"
    BY <1>0, <2>2
  <2>. QED BY <2>1, <2>3, LeavesDenials
<1>2. CASE RefreshFails(t)
  <2>1. /\ tab' = [tab EXCEPT ![t].user = None, ![t].loading = FALSE, ![t].refresh = NoRefresh]
        /\ \A c \in Calls : call'[c] = call[c] \/ call'[c] = NoCall
        /\ stale' = stale
    BY <1>2 DEF RefreshFails, Forget
  <2>2. \A u \in Tabs : tab'[u].refresh = tab[u].refresh \/ tab'[u].refresh = NoRefresh
    BY <1>0, <2>1 DEF Tab
  <2>3. NoRefresh.answer = None /\ NoCall.answer = None /\ ~NoCall.retried
    BY DEF NoRefresh, NoCall
  <2>. QED BY <2>1, <2>2, <2>3, LeavesDenials
<1>3. CASE RefreshSucceeds(t)
  <2>. DEFINE p == r.answer
  <2>1. /\ p \in Tokens /\ issued[p] # None /\ p \notin stale /\ p # None
        /\ UNCHANGED <<chainVars, stale>>
        /\ tab' = [tab EXCEPT ![t].refresh = NoRefresh]
    BY <1>0, <1>3, NamesAssumption, Zenon DEF RefreshSucceeds, RefreshOK, RefreshDenial
  <2>2. \A u \in Tabs : tab'[u].refresh = tab[u].refresh \/ tab'[u].refresh = NoRefresh
    BY <1>0, <2>1 DEF Tab
  <2>3. ASSUME NEW c \in Calls
        PROVE  CallDenial(call'[c], issued', status', stale')
    <3>1. call[c] \in Call /\ CallDenial(call[c], issued, status, stale)
      BY <1>0 DEF Denials
    <3>2. CASE c \in Waiting(t)
      <4>1. call'[c] = [call[c] EXCEPT !.pc = "sent", !.pair = p, !.retried = TRUE]
        BY <1>3, <3>2, Zenon DEF RefreshSucceeds
      <4>2. call[c].answer = None
        BY <3>1, <3>2 DEF Waiting, CallDenial
      <4>3. call'[c].pair = p /\ call'[c].answer = None
        BY <3>1, <4>1, <4>2 DEF Call
      <4>. QED BY <2>1, <4>3, NamesAssumption DEF CallDenial, chainVars
    <3>3. CASE c \notin Waiting(t)
      BY <1>3, <2>1, <3>1, <3>3, DenialsKept, Zenon DEF RefreshSucceeds
    <3>. QED BY <3>2, <3>3
  <2>4. ASSUME NEW u \in Tabs
        PROVE  RefreshDenial(tab'[u].refresh, issued', status', stale')
    <3>1. tab[u].refresh \in Refresh /\ RefreshOK(tab[u].refresh, issued)
      BY DEF Good, TypeOK, TokensIssued
    <3>2. RefreshDenial(tab[u].refresh, issued, status, stale)
      BY DEF Denials
    <3>3. tab'[u].refresh = tab[u].refresh \/ tab'[u].refresh.answer \in {None, "failed"}
      BY <2>2 DEF NoRefresh
    <3>4. CASE tab'[u].refresh = tab[u].refresh
      BY <2>1, <3>1, <3>2, <3>4, DenialsKept
    <3>5. CASE tab'[u].refresh.answer \in {None, "failed"}
      BY <3>5, NoDenial
    <3>. QED BY <3>3, <3>4, <3>5
  <2>5. \A q \in stale' : issued'[q] # None
    BY <2>1 DEF Denials, IssuedPersists, Good, TypeOK
  <2>. QED BY <2>3, <2>4, <2>5 DEF Denials
<1>4. CASE ServerRefreshes(t)
  <2>1. r.tok \in Tokens /\ s \in Sessions /\ UNCHANGED <<stale, call>>
    BY <1>0, <1>4, NamesAssumption
    DEF ServerRefreshes, RefreshOK, Refresh, Token, Good, TypeOK
  <2>2. PICK answer \in Tokens \cup {"denied"} :
          /\ AnswerRefresh(t, answer)
          /\ answer \in Tokens => Chain!Extend(s, answer) \/ Chain!Waste(s, answer)
          /\ answer = "denied" =>
               Chain!End({s}) \/ (status[s] = "ended" /\ UNCHANGED chainVars)
    <3>1. "denied" \notin Tokens
      BY NamesAssumption
    <3>2. \/ \E p \in Tokens :
               AnswerRefresh(t, p) /\ (Chain!Extend(s, p) \/ Chain!Waste(s, p))
          \/ /\ AnswerRefresh(t, "denied")
             /\ Chain!End({s}) \/ (status[s] = "ended" /\ UNCHANGED chainVars)
      BY <1>4, Zenon DEF ServerRefreshes
    <3>3. CASE \E p \in Tokens :
                 AnswerRefresh(t, p) /\ (Chain!Extend(s, p) \/ Chain!Waste(s, p))
      BY <3>1, <3>3
    <3>4. CASE /\ AnswerRefresh(t, "denied")
               /\ Chain!End({s}) \/ (status[s] = "ended" /\ UNCHANGED chainVars)
      BY <3>1, <3>4
    <3>. QED BY <3>2, <3>3, <3>4, Zenon
  <2>3. /\ tab'[t].refresh.answer = answer /\ tab'[t].refresh.tok = r.tok
        /\ \A u \in Tabs \ {t} : tab'[u] = tab[u]
    <3>1. answer \in Tokens \cup {"denied", "failed"} /\ AnswerRefresh(t, answer)
      BY <2>2
    <3>2. /\ tab' = [tab EXCEPT ![t] = [tab[t] EXCEPT !.refresh = AnsweredRefresh(t, answer)]]
          /\ [tab[t] EXCEPT !.refresh = AnsweredRefresh(t, answer)].refresh
               = AnsweredRefresh(t, answer)
          /\ AnsweredRefresh(t, answer).tok = r.tok
          /\ AnsweredRefresh(t, answer).answer = answer
      BY <3>1, AnswerStored
    <3>. QED BY <1>0, <3>2
  <2>4. answer \in Tokens => answer \notin stale'
    BY <2>1, <2>2 DEF Denials, Chain!Extend, Chain!Waste
  <2>5. answer = "denied" => status'[issued'[r.tok]] = "ended"
    BY <2>1, <2>2 DEF Chain!End, chainVars
  <2>6. ASSUME NEW u \in Tabs
        PROVE  RefreshDenial(tab'[u].refresh, issued', status', stale')
    <3>1. CASE u = t
      BY <2>3, <2>4, <2>5, <3>1 DEF RefreshDenial
    <3>2. CASE u # t
      <4>1. tab[u].refresh \in Refresh /\ RefreshOK(tab[u].refresh, issued)
        BY DEF Good, TypeOK, TokensIssued
      <4>. QED BY <2>1, <2>3, <3>2, <4>1, DenialsKept DEF Denials
    <3>. QED BY <3>1, <3>2
  <2>7. ASSUME NEW c \in Calls
        PROVE  CallDenial(call'[c], issued', status', stale')
    BY <1>0, <2>1, DenialsKept DEF Denials
  <2>8. \A q \in stale' : issued'[q] # None
    BY <2>1 DEF Denials, IssuedPersists, Good, TypeOK
  <2>. QED BY <2>6, <2>7, <2>8 DEF Denials
<1>. QED BY <1>1, <1>2, <1>3, <1>4 DEF RefreshProgress

LEMMA OtherDenials ==
  ASSUME Good, Denials, IssuedPersists, EndedStays, [Next]_vars,
         \A c \in Calls : ~CallProgress(c), \A t \in Tabs : ~RefreshProgress(t)
  PROVE  Denials'
<1>0. tab \in [Tabs -> Tab] /\ call \in [Calls -> Call]
  BY TypesSplit DEF Good, ClientTypes
<1>1. CASE UNCHANGED <<stale, tab, call>>
  BY <1>1, LeavesDenials
<1>2. ASSUME NEW t \in Tabs, NEW c \in Calls, NEW op \in {"data", "me", "logout"},
             StartCall(t, c, op)
      PROVE  Denials'
  <2>1. UNCHANGED <<stale, tab>> /\ call' = [call EXCEPT ![c] = Send(t, op)]
    BY <1>2 DEF StartCall
  <2>2. Send(t, op).answer = None /\ ~Send(t, op).retried
    BY DEF Send, NoCall
  <2>. QED BY <1>0, <2>1, <2>2, LeavesDenials
<1>3. ASSUME NEW t \in Tabs, NEW c \in Calls, Reload(t, c)
      PROVE  Denials'
  <2>1. /\ stale' = stale
        /\ \A u \in Tabs : tab'[u].refresh = tab[u].refresh \/ tab'[u].refresh = NoRefresh
    BY <1>0, <1>3 DEF Reload
  <2>2. /\ Send(t, "boot").answer = None /\ ~Send(t, "boot").retried
        /\ NoCall.answer = None /\ ~NoCall.retried /\ NoRefresh.answer = None
    BY DEF Send, NoCall, NoRefresh
  <2>3. \A k \in Calls : call'[k] \in {NoCall, Send(t, "boot"), call[k]}
    BY <1>0, <1>3 DEF Reload
  <2>. QED BY <2>1, <2>2, <2>3, LeavesDenials
<1>4. ASSUME NEW t \in Tabs, NEW s \in Sessions, NEW p \in Tokens, SignIn(t, s, p)
      PROVE  Denials'
  <2>1. /\ UNCHANGED <<stale, call>>
        /\ \A u \in Tabs : tab'[u].refresh = tab[u].refresh
    BY <1>0, <1>4 DEF SignIn, Tab
  <2>. QED BY <2>1, LeavesDenials
<1>5. ASSUME NEW p \in Tokens, ExpireAccess(p)
      PROVE  Denials'
  BY <1>5 DEF ExpireAccess, Denials, RefreshDenial, CallDenial, chainVars, clientVars
<1>6. CASE \/ UNCHANGED vars
           \/ \E t1, t2 \in Tabs : ServerForks(t1, t2)
           \/ \E s \in Sessions : OpenSession(s) \/ EndSession(s)
  <2>1. UNCHANGED <<stale, tab, call>>
    BY <1>6 DEF vars, ServerForks, OpenSession, EndSession, clientVars
  <2>. QED BY <1>1, <2>1
<1>. QED BY <1>2, <1>3, <1>4, <1>5, <1>6 DEF Next

LEMMA DenialsInit == Init => Denials
BY NamesAssumption
DEF Init, Chain!Init, Denials, RefreshDenial, CallDenial, NoRefresh, NoCall

LEMMA DenialsStep == Good /\ Denials /\ [Next]_vars => Denials'
<1>. SUFFICES ASSUME Good, Denials, [Next]_vars PROVE Denials'
  OBVIOUS
<1>1. IssuedPersists /\ EndedStays
  BY ServerGoesOn
<1>. QED BY <1>1, CallDenials, RefreshDenials, OtherDenials

(* A session that a tab gives up because it was refused is not open, or an earlier
   session was meant. *)
LEMMA GivenUpEnded ==
  ASSUME Good, NEW p \in Tokens, status[issued[p]] = "ended", GiveUp(issued[p], "denied"),
         "late" \notin blame'
  PROVE  dropped' = dropped
BY DEF GiveUp, Blame, Owner

LEMMA KeptStep == Good /\ Denials /\ KeptWhileOpen /\ [Next]_vars => KeptWhileOpen'
<1>. SUFFICES ASSUME Good, Denials, KeptWhileOpen, [Next]_vars, "late" \notin blame'
              PROVE  "denied" \notin dropped'
  BY DEF KeptWhileOpen
<1>1. "denied" \notin dropped
  BY BlameGrows DEF KeptWhileOpen
<1>2. ASSUME NEW c \in Calls, Reject(c)
      PROVE  "denied" \notin dropped'
  <2>1. call[c] \in Call /\ CallDenial(call[c], issued, status, stale)
    BY DEF Good, TypeOK, Denials
  <2>2. CASE call[c].answer = "denied" /\ GiveUp(Owner(call[c].pair), call[c].answer)
    <3>1. call[c].retried
      BY <1>2, <2>2 DEF Reject
    <3>2. /\ call[c].pair \in Tokens /\ status[issued[call[c].pair]] = "ended"
          /\ Owner(call[c].pair) = issued[call[c].pair]
      BY <2>1, <2>2, <3>1 DEF CallDenial, Call, Token, Owner
    <3>. QED BY <1>1, <2>2, <3>2, GivenUpEnded
  <2>3. CASE \/ dropped' = dropped
             \/ dropped' = dropped \cup {call[c].answer} /\ call[c].answer # "denied"
    BY <1>1, <2>3
  <2>. QED BY <1>2, <2>2, <2>3 DEF Reject, GiveUp
<1>3. ASSUME NEW t \in Tabs, RefreshFails(t)
      PROVE  "denied" \notin dropped'
  <2>. DEFINE r == tab[t].refresh
  <2>1. /\ r \in Refresh /\ RefreshOK(r, issued) /\ RefreshDenial(r, issued, status, stale)
        /\ GiveUp(issued[r.tok], r.answer) /\ r.pc = "answered"
    BY <1>3 DEF Good, TypeOK, TokensIssued, Denials, RefreshFails
  <2>2. CASE r.answer = "denied"
    <3>1. r.tok \in Tokens /\ status[issued[r.tok]] = "ended"
      <4>1. r.tok \in Tokens \cup {None} /\ r.tok # None
        BY <2>1 DEF RefreshOK, Refresh, Token
      <4>. QED BY <2>1, <2>2, <4>1 DEF RefreshDenial
    <3>. QED BY <1>1, <2>1, <2>2, <3>1, GivenUpEnded
  <2>3. CASE r.answer # "denied"
    BY <1>1, <2>1, <2>3 DEF GiveUp
  <2>. QED BY <2>2, <2>3
<1>4. ASSUME NEW t \in Tabs, ServerRefreshes(t)
      PROVE  "denied" \notin dropped'
  BY <1>1, <1>4 DEF ServerRefreshes
<1>5. CASE /\ \A c \in Calls : ~Reject(c)
           /\ \A t \in Tabs : ~RefreshFails(t) /\ ~ServerRefreshes(t)
  <2>1. dropped' = dropped
    BY <1>5, Zenon DEF Next, vars, StartCall, Reload, SignIn, ServerForks, OpenSession, EndSession,
                ExpireAccess, history, CallProgress, ServerAnswers, Lose, Deliver, Resolve,
                Expired, AwaitRefresh, RefreshProgress, LoseRefresh, RefreshSucceeds
  <2>. QED BY <1>1, <2>1
<1>. QED BY <1>2, <1>3, <1>4, <1>5

-----------------------------------------------------------------------------
(* Who is shown, in one tab *)

\* The user stored, and the one a tab shows, is the owner of the tokens stored.
BearerStored ==
  /\ storage.pair # None => storage.user = Owner(storage.pair)
  /\ \A t \in Tabs : tab[t].user \in {None, Owner(storage.pair)}

Unlate == "late" \notin blame => BearerStored

LEMMA OwnerStays ==
  ASSUME Good, IssuedPersists, storage'.pair = storage.pair
  PROVE  Owner(storage.pair)' = Owner(storage.pair)
BY DEF Owner, Good, TypeOK, TokensIssued, IssuedPersists, Token

(* A step that forgets what is stored, shows nobody any more, or changes neither. *)
LEMMA ShowsNoOther ==
  ASSUME Good, BearerStored, IssuedPersists,
         \/ storage' = storage /\ \A t \in Tabs : tab'[t].user \in {None, tab[t].user}
         \/ storage' = Empty /\ \A t \in Tabs : tab'[t].user = None
  PROVE  BearerStored'
<1>1. CASE storage' = storage /\ \A t \in Tabs : tab'[t].user \in {None, tab[t].user}
  BY <1>1, OwnerStays DEF BearerStored
<1>2. CASE storage' = Empty /\ \A t \in Tabs : tab'[t].user = None
  BY <1>2 DEF BearerStored, Empty
<1>. QED BY <1>1, <1>2

LEMMA BearerStep ==
  ASSUME Good, Good', NEW only, Tabs = {only}, Unlate, [Next]_vars, "late" \notin blame'
  PROVE  BearerStored'
<1>0. /\ BearerStored /\ IssuedPersists
      /\ tab \in [Tabs -> Tab] /\ tab[only] \in Tab
      /\ storage \in [pair : Token, user : Sessions \cup {None}]
  BY BlameGrows, ServerGoesOn, TypesSplit DEF Unlate, Good, ClientTypes
<1>1. CASE storage' = storage /\ \A t \in Tabs : tab'[t].user = tab[t].user
  BY <1>0, <1>1, ShowsNoOther
<1>2. CASE ClearSession(only) \/ Forget(only)
  <2>1. storage' = Empty /\ tab'[only].user = None
    BY <1>0, <1>2 DEF ClearSession, Forget, Tab
  <2>. QED BY <1>0, <2>1, ShowsNoOther
<1>3. ASSUME NEW c \in Calls, Resolve(c)
      PROVE  BearerStored'
  <2>. DEFINE s == Owner(call[c].pair)
  <2>1. call[c].tab = only /\ call[c].op \in {"data", "me", "boot", "logout"}
    BY <1>3 DEF Resolve, Good, CallsOK, TypeOK, Call
  <2>2. CASE UNCHANGED <<storage, tab>>
    BY <1>1, <2>2
  <2>3. CASE /\ storage' = [storage EXCEPT !.user = s]
             /\ tab' = [tab EXCEPT ![only].user = s, ![only].loading = @ /\ call[c].op # "boot"]
             /\ Owner(storage.pair) = s
    <3>1. tab'[only].user = s
      BY <1>0, <2>3 DEF Tab
    <3>2. /\ storage'.pair = storage.pair /\ storage'.user = s
          /\ Owner(storage.pair)' = s
      BY <1>0, <2>3, OwnerStays
    <3>. QED BY <3>1, <3>2 DEF BearerStored
  <2>. QED BY <1>2, <1>3, <2>1, <2>2, <2>3 DEF Resolve, Blame
<1>4. ASSUME NEW c \in Calls, Reject(c) \/ Expired(c)
      PROVE  BearerStored'
  <2>1. call[c].tab = only
    BY <1>4 DEF Reject, Expired, Good, CallsOK
  <2>. QED BY <1>1, <1>2, <1>4, <2>1 DEF Reject, Expired
<1>5. ASSUME NEW c \in Calls, AwaitRefresh(c)
      PROVE  BearerStored'
  BY <1>0, <1>1, <1>5 DEF AwaitRefresh, JoinRefresh, Tab
<1>6. ASSUME NEW t \in Tabs, ServerRefreshes(t) \/ LoseRefresh(t)
      PROVE  BearerStored'
  <2>1. storage' = storage
    BY <1>6 DEF ServerRefreshes, LoseRefresh
  <2>2. PICK answer : AnswerRefresh(t, answer)
    BY <1>6, Zenon DEF ServerRefreshes, LoseRefresh
  <2>3. \A u \in Tabs : tab'[u].user = tab[u].user
    <3>1. tab[t].refresh \in Refresh
      BY <1>0 DEF Tab
    <3>2. tab' = [tab EXCEPT ![t] = [tab[t] EXCEPT !.refresh =
                    [tab[t].refresh EXCEPT !.pc = "answered", !.answer = answer]]]
      BY <1>0, <2>2, <3>1 DEF AnswerRefresh, Tab, Refresh
    <3>. DEFINE b == [tab[t] EXCEPT !.refresh =
                        [tab[t].refresh EXCEPT !.pc = "answered", !.answer = answer]]
    <3>3. b.user = tab[t].user
      BY <1>0 DEF Tab
    <3>. HIDE DEF b
    <3>. QED BY <1>0, <3>2, <3>3 DEF b
  <2>. QED BY <1>1, <2>1, <2>3
<1>7. ASSUME NEW t \in Tabs, RefreshSucceeds(t)
      PROVE  BearerStored'
  <2>1. /\ storage' = [pair |-> tab[t].refresh.answer, user |-> issued[tab[t].refresh.answer]]
        /\ tab' = [tab EXCEPT ![t].refresh = NoRefresh]
        /\ issued' = issued /\ tab[t].refresh.answer \in Tokens
        /\ Owner(storage.pair) = issued[tab[t].refresh.answer]
    BY <1>7, Zenon DEF RefreshSucceeds, Blame, chainVars
  <2>2. \A u \in Tabs : tab'[u].user = tab[u].user
    BY <1>0, <2>1 DEF Tab
  <2>. QED BY <1>0, <2>1, <2>2, NamesAssumption DEF BearerStored, Owner
<1>8. ASSUME NEW t \in Tabs, RefreshFails(t)
      PROVE  BearerStored'
  BY <1>2, <1>8 DEF RefreshFails
<1>9. ASSUME NEW t \in Tabs, NEW s \in Sessions, NEW p \in Tokens, SignIn(t, s, p)
      PROVE  BearerStored'
  <2>1. storage' = [pair |-> p, user |-> s] /\ issued'[p] = s /\ p # None
    BY <1>9, NamesAssumption DEF SignIn, Chain!Extend, Good, TypeOK
  <2>2. tab'[only].user = s
    BY <1>0, <1>9 DEF SignIn, Tab
  <2>. QED BY <2>1, <2>2 DEF BearerStored, Owner
<1>10. ASSUME NEW t \in Tabs, NEW c \in Calls, Reload(t, c)
       PROVE  BearerStored'
  <2>1. /\ storage' = storage
        /\ tab'[only].user = IF storage.pair # None THEN storage.user ELSE None
    BY <1>0, <1>10 DEF Reload
  <2>2. Owner(storage.pair)' = Owner(storage.pair)
    BY <1>0, <2>1, OwnerStays
  <2>. QED BY <1>0, <2>1, <2>2 DEF BearerStored
<1>11. CASE \/ \E t \in Tabs, c \in Calls, op \in {"data", "me", "logout"} : StartCall(t, c, op)
            \/ \E c \in Calls : ServerAnswers(c) \/ Lose(c)
            \/ \E t1, t2 \in Tabs : ServerForks(t1, t2)
            \/ \E s \in Sessions : OpenSession(s) \/ EndSession(s)
            \/ \E p \in Tokens : ExpireAccess(p)
            \/ UNCHANGED vars
  BY <1>1, <1>11 DEF StartCall, ServerAnswers, Lose, ServerForks, OpenSession, EndSession,
                     ExpireAccess, clientVars, vars
<1>. QED BY <1>3, <1>4, <1>5, <1>6, <1>7, <1>8, <1>9, <1>10, <1>11
     DEF Next, CallProgress, Deliver, RefreshProgress

-----------------------------------------------------------------------------
(* Theorems *)

(* Whatever the tabs, calls and sessions do, every variable keeps its type. *)
THEOREM TypeCorrect == Spec => []TypeOK
BY GoodInit, GoodStep, PTL DEF Spec, Good

(* No call of the app is ever left waiting for a refresh that its tab does not have in
   flight any more: whatever settles a refresh settles or replays every call that
   waits for it (tryRefresh and the response interceptor of apiClient.ts). *)
THEOREM WaitersKept == Spec => []WaitersHaveRefresh
<1>1. Good => WaitersHaveRefresh
  BY DEF Good, CallsOK, WaitersHaveRefresh
<1>. QED BY <1>1, GoodInit, GoodStep, PTL DEF Spec

(* However many calls find their access token expired at once, and whatever answers are
   lost: the client presents no refresh token of an open session a second time, and so
   is never taken for a thief and signed out, unless two tabs refreshed at once or a
   reload cut a refresh off (refreshInFlight of apiClient.ts). *)
THEOREM RefreshesOnce == Spec => []PresentedOnce
<1>1. Replayless => PresentedOnce
  BY DEF Replayless, PresentedOnce, Careful
<1>. QED BY <1>1, GoodInit, GoodStep, ReplaylessInit, ReplaylessStep, PTL DEF Spec

(* However many calls find their access token expired at once, the user is not signed out
   of a session that is open because the server refused something: a refused refresh and a
   refused replay mean that the session has ended, whatever other tabs and reloads did
   meanwhile, unless a late answer concerned an earlier session (the two catch blocks
   of apiClient.ts).  Nothing is said of lost and failed answers. *)
THEOREM KeptInOpenSession == Spec => []KeptWhileOpen
<1>1. Init => KeptWhileOpen
  BY DEF Init, KeptWhileOpen
<1>. QED BY <1>1, GoodInit, GoodStep, DenialsInit, DenialsStep, KeptStep, PTL DEF Spec

(* In one tab the user on the screen is the owner of the tokens that go with the next
   call, through every sign-in, sign-out, refresh and reload, unless an answer of an
   earlier session came late (AuthContext.tsx and authStorage.ts). *)
THEOREM ShownIsBearer ==
  ASSUME NEW only, Tabs = {only}
  PROVE  Spec => []ShowsBearer
<1>1. Init => Unlate
  BY DEF Init, Unlate, BearerStored, Empty
<1>2. Good /\ Good' /\ Unlate /\ [Next]_vars => Unlate'
  BY BearerStep DEF Unlate
<1>3. Unlate => ShowsBearer
  BY DEF Unlate, BearerStored, ShowsBearer
<1>. QED BY <1>1, <1>2, <1>3, GoodInit, GoodStep, PTL DEF Spec

=============================================================================
