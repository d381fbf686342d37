----------------------------- MODULE SessionChain -----------------------------
(***************************************************************************)
(* What the sessions of the server promise whoever holds refresh tokens,   *)
(* without requests, rows or clocks: a session is opened once and ended    *)
(* once; while it is open it has at most one live token; a new token is    *)
(* one never issued before and takes the place of the live one.            *)
(*                                                                         *)
(* Two exchanges of one token that overlap break the promise (see the      *)
(* README): their session is "forked" and promises no more than that it    *)
(* can be ended.  TokenService implements this specification, WebClient is *)
(* composed with it.                                                       *)
(***************************************************************************)
CONSTANTS Sessions, Tokens, None

VARIABLES
  status,   \* of a session: "none", "open", "forked" or "ended"
  live,     \* the live tokens of a session that is open
  issued    \* the session a token was issued in, None for one never issued

vars == <<status, live, issued>>

Init ==
  /\ status = [s \in Sessions |-> "none"]
  /\ live = [s \in Sessions |-> {}]
  /\ issued = [t \in Tokens |-> None]

Open(s) ==
  /\ status[s] = "none"
  /\ status' = [status EXCEPT ![s] = "open"]
  /\ UNCHANGED <<live, issued>>

\* A fresh token takes the place of the live one.
Extend(s, t) ==
  /\ status[s] = "open"
  /\ issued[t] = None
  /\ issued' = [issued EXCEPT ![t] = s]
  /\ live' = [live EXCEPT ![s] = {t}]
  /\ UNCHANGED status

\* The live token is given back.
Spend(s) ==
  /\ status[s] = "open"
  /\ live' = [live EXCEPT ![s] = {}]
  /\ UNCHANGED <<status, issued>>

Fork(s) ==
  /\ status[s] = "open"
  /\ status' = [status EXCEPT ![s] = "forked"]
  /\ live' = [live EXCEPT ![s] = {}]
  /\ UNCHANGED issued

\* A token issued in a session that promises nothing any more.
Waste(s, t) ==
  /\ status[s] \in {"forked", "ended"}
  /\ issued[t] = None
  /\ issued' = [issued EXCEPT ![t] = s]
  /\ UNCHANGED <<status, live>>

\* Some sessions end together.
End(ended) ==
  /\ \A s \in ended : status[s] \in {"open", "forked"}
  /\ status' = [s \in Sessions |-> IF s \in ended THEN "ended" ELSE status[s]]
  /\ live' = [s \in Sessions |-> IF s \in ended THEN {} ELSE live[s]]
  /\ UNCHANGED issued

Next ==
  \/ \E s \in Sessions :
       \/ Open(s) \/ Spend(s) \/ Fork(s)
       \/ \E t \in Tokens : Extend(s, t) \/ Waste(s, t)
  \/ \E ended \in SUBSET Sessions : End(ended)

Spec == Init /\ [][Next]_vars

=============================================================================
