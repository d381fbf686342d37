------------------------------- MODULE Screens -------------------------------
(***************************************************************************)
(* The signed-in pages of one browser tab: what they show, and what became *)
(* of the changes made from them.  Every page reads through the one query  *)
(* cache of lib/queryClient.ts, whose keys name neither the user nor the   *)
(* tenant and which nothing clears; a change is sent, and once it is       *)
(* answered the page asks for its lists again.                             *)
(*                                                                         *)
(* Changes are numbered, and what a list says is the number of the last    *)
(* change the API had made when it read the list, and for whom it          *)
(* read; two accounts stand for users of two tenants.  Changes made by     *)
(* others are left out: they make an answer newer than anything asked of   *)
(* it.  The cache is TanStack Query's (external): a query has one fetch at *)
(* a time, whoever asks meanwhile joins it, and asking again after a       *)
(* change starts it anew only when the query already has an answer and a   *)
(* page that shows it.                                                     *)
(***************************************************************************)
EXTENDS Naturals, Sequences

CONSTANTS
  Accounts,       \* who signs in on this tab
  PagesInPlay,    \* the pages of the app that are visited
  Queries,        \* searches and page numbers of a list
  First,          \* the one a list opens with
  Calls,          \* changes under way at the same time
  MaxChanges,     \* bound: changes the API makes
  MaxMoves,       \* bound: pages opened, searched or loaded again
  None

ASSUME BoundsAssumption ==
  /\ First \in Queries
  /\ {MaxChanges, MaxMoves} \subseteq Nat

-----------------------------------------------------------------------------
(* What the pages are made of *)

\* A change: the page it is made on, the dialog it is made in, if any, whether it is made
\* to a row on the screen, the table it changes, and the families of lists that are asked
\* for again, one after another.  A page that waits for them does so before it closes the
\* dialog.
Change(p, box, row, table, families, waits) ==
  [page |-> p, dialog |-> box, row |-> row, table |-> table, families |-> families,
   waits |-> waits]

\* Keys under one prefix: the dashboard counts clients and projects, and the projects
\* page offers the clients as a filter.
ClientLists == {"clientCount", "clients", "clientChoice"}
ProjectLists == {"projectCount", "projects"}
UserLists == {"users", "invitations"}

ClientFormDialog == Change("clients", "form", FALSE, "clients", <<ClientLists>>, FALSE)
DeleteClient == Change("clients", "confirm", TRUE, "clients", <<ClientLists>>, FALSE)
ProjectFormDialog == Change("projects", "form", FALSE, "projects", <<ProjectLists>>, FALSE)
DeleteProject == Change("projects", "confirm", TRUE, "projects", <<ProjectLists>>, FALSE)

\* Mutant: each list of the team page has a key of its own, and one is asked for.
InvitationsOnly == <<{"invitations"}, {"invitations"}>>

\* The team page's refresh: the key of the invitations is under that of the users.
TeamRefresh == <<UserLists, {"invitations"}>>

InviteUserDialog == Change("team", "invite", FALSE, "invitations", TeamRefresh, TRUE)
UserRolesDialog == Change("team", "roles", TRUE, "users", TeamRefresh, TRUE)
SetStatus == Change("team", None, TRUE, "users", TeamRefresh, TRUE)
WithdrawInvitation == Change("team", None, TRUE, "invitations", TeamRefresh, TRUE)

UpdateTenant == Change("settings", None, FALSE, "tenants", <<{"tenant"}>>, TRUE)

\* One's own name, of which no list is asked for again but only who is signed in.
ProfileDetailsForm == Change("profile", None, FALSE, "users", <<{}>>, TRUE)

\* Changing the password ends the other sessions.
ChangePasswordForm == Change("profile", None, FALSE, "sessions", <<{"sessions"}>>, TRUE)
RevokeSession == Change("profile", None, TRUE, "sessions", <<{"sessions"}>>, TRUE)

\* The pages: the lists each asks for and the changes made on it.
DashboardPage == [lists |-> {"clientCount", "projectCount"}, changes |-> {}]
ClientsListPage == [lists |-> {"clients"}, changes |-> {ClientFormDialog, DeleteClient}]
ProjectsListPage ==
  [lists |-> {"projects", "clientChoice"}, changes |-> {ProjectFormDialog, DeleteProject}]
UsersListPage ==
  [lists |-> UserLists,
   changes |-> {InviteUserDialog, UserRolesDialog, SetStatus, WithdrawInvitation}]
SettingsPage == [lists |-> {"tenant"}, changes |-> {UpdateTenant}]
ProfilePage ==
  [lists |-> {"sessions"},
   changes |-> {ProfileDetailsForm, ChangePasswordForm, RevokeSession}]
AuditLogPage == [lists |-> {"auditLogs"}, changes |-> {}]

App(p) ==
  CASE p = "dashboard" -> DashboardPage
    [] p = "clients" -> ClientsListPage
    [] p = "projects" -> ProjectsListPage
    [] p = "team" -> UsersListPage
    [] p = "settings" -> SettingsPage
    [] p = "profile" -> ProfilePage
    [] p = "audit" -> AuditLogPage

Pages == {"dashboard", "clients", "projects", "team", "settings", "profile", "audit"}

Lists(p) == App(p).lists

\* The lists that are searched and paged through, each request a query of its own.
Searched == {"clients", "projects", "users", "auditLogs"}

\* The lists whose last answer stays on the screen until the next one is there.
KeepsLast == {"clients", "projects"}

\* The tables a list shows something of: the clients page the number of their projects,
\* the projects page the names of their clients, the audit log every change.
Reads(list) ==
  CASE list \in {"clients", "projects"} -> {"clients", "projects"}
    [] list \in {"clientCount", "clientChoice"} -> {"clients"}
    [] list = "projectCount" -> {"projects"}
    [] list = "tenant" -> {"tenants"}
    [] list = "auditLogs" -> {"clients", "projects", "users", "invitations", "tenants",
                              "sessions"}
    [] OTHER -> {list}

Names == UNION {Lists(p) : p \in PagesInPlay}
Keys == {k \in Names \X Queries : k[1] \in Searched \/ k[2] = First}
Changes == UNION {App(p).changes : p \in PagesInPlay}

\* What the code leaves as it was: the number of projects beside a client after a change
\* to a project, the name of the client beside a project after a change to a client, the
\* team after one's own name, and the audit log after any change.
LeftAlone(ch) ==
  {"auditLogs"} \cup (IF ch.table = "projects" THEN {"clients"} ELSE {})
                \cup (IF ch.table = "clients" THEN {"projects"} ELSE {})
                \cup (IF ch = ProfileDetailsForm THEN {"users"} ELSE {})

\* The lists that show what ch changes and are asked for again after it.
KeptUpWith(ch) == {l \in Names : ch.table \in Reads(l)} \ LeftAlone(ch)

\* What a list says, and for whom.
Answers == [account : Accounts, version : 0..MaxChanges]

\* What the API read for a request for a list; a request, late when a change that
\* succeeded has overtaken it.
Readings == {<<n>> : n \in 0..MaxChanges}
Fetches == [account : Accounts, read : Readings \cup {None}, late : BOOLEAN]

Entry == [data : Answers \cup {None}, invalid : BOOLEAN, fetch : Fetches \cup {None}]

Call == [pc : {"idle", "sent", "applied", "refresh"}, change : Changes \cup {None},
         account : Accounts \cup {None}, version : 0..MaxChanges, step : Nat,
         waits : SUBSET Keys, here : BOOLEAN, cut : BOOLEAN]

\* None is nothing of all this, and the app has the pages that are visited.
ASSUME NamesAssumption ==
  /\ PagesInPlay \subseteq Pages
  /\ None \notin UNION {Accounts, Calls, Pages, Answers, Readings, Fetches}

-----------------------------------------------------------------------------

VARIABLES
  made,     \* how many changes the API has made
  account,  \* who is signed in
  page,     \* the page on the screen, None when signed out
  query,    \* the search and page number its searched list is at
  last,     \* of that list, the last answer it showed
  cache,    \* of each query: its answer, whether it was invalidated since, and the
            \* fetch under way
  dialog,   \* the dialog that is open, and the change sent from it
  call,     \* the changes under way
  moves,    \* pages opened, searched or loaded again so far
  mine,     \* history: of each account and list, the last change this tab was told
            \* had succeeded, of those the list is kept up with
  raced     \* history: the queries answered by a fetch that was not started anew
            \* although a change had succeeded meanwhile

screen == <<account, page, query, last, moves>>
vars == <<made, account, page, query, last, cache, dialog, call, moves, mine, raced>>

NoEntry == [data |-> None, invalid |-> FALSE, fetch |-> None]
NoDialog == [of |-> None, sent |-> None]
NoCall == [pc |-> "idle", change |-> None, account |-> None, version |-> 0,
           step |-> 0, waits |-> {}, here |-> FALSE, cut |-> FALSE]

Init ==
  /\ made = 0
  /\ account = None /\ page = None /\ query = First /\ last = None
  /\ cache = [k \in Keys |-> NoEntry]
  /\ dialog = NoDialog
  /\ call = [c \in Calls |-> NoCall]
  /\ moves = 0
  /\ mine = [a \in Accounts |-> [l \in Names |-> 0]]
  /\ raced = {}

TypeOK ==
  /\ made \in 0..MaxChanges
  /\ account \in Accounts \cup {None}
  /\ page \in PagesInPlay \cup {None}
  /\ query \in Queries
  /\ last \in Answers \cup {None}
  /\ cache \in [Keys -> Entry]
  /\ dialog \in [of : Changes \cup {None}, sent : Calls \cup {None}]
  /\ call \in [Calls -> Call]
  /\ moves \in Nat
  /\ mine \in [Accounts -> [Names -> 0..MaxChanges]]
  /\ raced \subseteq Keys

\* The queries of page p with its searched list at q.
Shows(p, q) ==
  IF p = None THEN {}
  ELSE {<<l, IF l \in Searched THEN q ELSE First>> : l \in Lists(p)}

Mounted == Shows(page, query)

\* The rows of a list on the screen.
Shown(k) ==
  IF cache[k].data = None /\ k[1] \in KeepsLast THEN last ELSE cache[k].data

-----------------------------------------------------------------------------
(* The query cache *)

\* A request with the bearer of whoever is signed in.
Fetch(a) == [account |-> a, read |-> None, late |-> FALSE]

\* The queries on the screen of a ask, unless an answer is there that is neither
\* invalidated nor older than staleTime, or is on its way.
Mount(keys, a) ==
  \E old \in SUBSET {k \in keys : cache[k].data # None /\ ~cache[k].invalid} :
    cache' = [k \in Keys |->
      LET e == cache[k]
      IN  IF k \in keys /\ e.fetch = None /\ (e.data = None \/ e.invalid \/ k \in old)
          THEN [e EXCEPT !.fetch = Fetch(a)]
          ELSE e]

\* Asked again while it is on the screen: a fetch under way is given up for a new
\* one, but a first one is joined.
Refetched(e) ==
  IF e.fetch = None \/ e.data # None THEN [e EXCEPT !.fetch = Fetch(account)] ELSE e

\* invalidateQueries: marked, and asked again if it is on the screen.
AskAgain(k) ==
  LET e == [cache[k] EXCEPT !.invalid = TRUE]
  IN  IF k \in Mounted THEN Refetched(e) ELSE e

Under(family) == {k \in Keys : k[1] \in family /\ (k \in Mounted \/ cache[k] # NoEntry)}

\* The fetches that are given up when these queries are asked again.
Cancelled(keys) ==
  {k \in keys \cap Mounted : cache[k].fetch # None /\ cache[k].data # None}

\* Those that go on although the API has read the list for them.
Overtaken(keys) ==
  {k \in keys : cache[k].fetch # None /\ cache[k].fetch.read # None} \ Cancelled(keys)

Invalidate(keys) ==
  cache' = [k \in Keys |->
    IF k \notin keys THEN cache[k]
    ELSE IF k \in Overtaken(keys) THEN [AskAgain(k) EXCEPT !.fetch.late = TRUE]
    ELSE AskAgain(k)]

\* The calls that waited for these go on: they have an answer, or will get none.
Released(keys) == [c \in Calls |-> [call[c] EXCEPT !.waits = @ \ keys]]
Missed(keys) ==
  [c \in Calls |-> [call[c] EXCEPT !.waits = @ \ keys,
                                  !.cut = @ \/ call[c].waits \cap keys # {}]]

\* The API reads the list.
ReadList(k) ==
  LET f == cache[k].fetch
  IN  /\ f # None /\ f.read = None
      /\ cache' = [cache EXCEPT ![k].fetch.read = <<made>>]
      /\ UNCHANGED <<made, screen, dialog, call, mine, raced>>

\* The answer is stored, whoever asked; what waits for it goes on.
Answer(k) ==
  LET f == cache[k].fetch
  IN  /\ f # None /\ f.read # None
      /\ cache' = [cache EXCEPT ![k] =
           [NoEntry EXCEPT !.data = [account |-> f.account, version |-> f.read[1]]]]
      /\ call' = Released({k})
      /\ raced' = IF f.late THEN raced \cup {k} ELSE raced \ {k}
      /\ UNCHANGED <<made, screen, dialog, mine>>

\* No answer, or a refusal: given up after the one retry.  An answer from before stays.
Fail(k) ==
  /\ cache[k].fetch # None
  /\ cache' = [cache EXCEPT ![k].fetch = None]
  /\ call' = Missed({k})
  /\ UNCHANGED <<made, screen, dialog, mine, raced>>

\* A fetch that failed is tried once more for a page that shows it, with the bearer of
\* the moment; for the same account that is one longer fetch.
Retry(k) ==
  /\ k \in Mounted
  /\ cache[k].fetch # None /\ cache[k].fetch.account # account
  /\ cache' = [cache EXCEPT ![k].fetch = Fetch(account)]
  /\ UNCHANGED <<made, screen, dialog, call, mine, raced>>

\* A query no page has shown for a while is dropped.
Collect(k) ==
  /\ cache[k].data # None /\ cache[k].fetch = None /\ k \notin Mounted
  /\ cache' = [cache EXCEPT ![k] = NoEntry]
  /\ raced' = raced \ {k}
  /\ UNCHANGED <<made, screen, dialog, call, mine>>

-----------------------------------------------------------------------------
(* Coming and going *)

\* The changes under way go on without the page they were made on.
Leave == call' = [c \in Calls |-> [call[c] EXCEPT !.here = FALSE]]

Open(p) ==
  /\ page' = p /\ query' = First /\ last' = None
  /\ dialog' = NoDialog
  /\ Leave

Move == moves < MaxMoves /\ moves' = moves + 1

SignIn(a, p) ==
  /\ account = None
  /\ account' = a
  /\ Move
  /\ Open(p)
  /\ Mount(Shows(p, First), a)
  /\ UNCHANGED <<made, mine, raced>>

SignOut ==
  /\ account # None
  /\ account' = None
  /\ Open(None)
  /\ UNCHANGED <<made, cache, moves, mine, raced>>

Visit(p) ==
  /\ account # None /\ p # page
  /\ Move
  /\ Open(p)
  /\ Mount(Shows(p, First), account)
  /\ UNCHANGED <<made, account, mine, raced>>

\* Another page number or search.
Browse(q) ==
  /\ dialog = NoDialog
  /\ q # query
  /\ Move
  /\ \E list \in Searched \cap (IF page = None THEN {} ELSE Lists(page)) :
       /\ query' = q
       /\ last' = IF list \in KeepsLast THEN Shown(<<list, query>>) ELSE None
  /\ Mount(Shows(page, q), account)
  /\ UNCHANGED <<made, account, page, dialog, call, mine, raced>>

\* The refresh button of a list.
Refetch ==
  /\ page \in {"clients", "projects"} /\ dialog = NoDialog
  /\ LET k == <<page, query>>
     IN  /\ cache' = [cache EXCEPT ![k] = Refetched(cache[k])]
         /\ call' = Missed(Cancelled({k}))
  /\ UNCHANGED <<made, screen, dialog, mine, raced>>

\* The browser loads the app again: the cache and what was waited for are gone, the
\* session is not.
Reload ==
  /\ page # None
  /\ Move
  /\ last' = None /\ query' = First
  /\ dialog' = NoDialog
  /\ call' = [c \in Calls |-> NoCall]
  /\ cache' = [k \in Keys |->
       IF k \in Shows(page, First) THEN [NoEntry EXCEPT !.fetch = Fetch(account)]
       ELSE NoEntry]
  /\ raced' = {}
  /\ UNCHANGED <<made, account, page, mine>>

-----------------------------------------------------------------------------
(* Changes *)

\* A row of the change's table is on the screen.
RowShown(ch) == \E k \in Mounted : ch.table \in Reads(k[1]) /\ Shown(k) # None

OpenDialog(ch) ==
  /\ dialog = NoDialog
  /\ ch.page = page /\ ch.dialog # None
  /\ ch.row => RowShown(ch)
  /\ dialog' = [of |-> ch, sent |-> None]
  /\ UNCHANGED <<made, screen, cache, call, mine, raced>>

\* Cancel, Escape or a click beside it, a change sent from it under way or not.
CloseDialog ==
  /\ dialog # NoDialog
  /\ dialog' = NoDialog
  /\ UNCHANGED <<made, screen, cache, call, mine, raced>>

UnderWay(ch) == {c \in Calls : call[c].pc # "idle" /\ call[c].here /\ call[c].change = ch}

\* Sent and not answered.
Pending(ch) == \E c \in UnderWay(ch) : call[c].pc # "refresh"

\* A dialog sends one change at a time, and may send the next while the page refreshes.
\* Confirmations, invitations and the forms of a page also wait for the one before when
\* the dialog was closed and opened again; the settings form until its list is there,
\* which sets it anew, and that of one's own name until all of it is through.
\* The other dialogs and the buttons of a row do not wait.
Free(ch) ==
  /\ IF ch.dialog = None THEN dialog = NoDialog
     ELSE dialog.of = ch /\ (dialog.sent # None => call[dialog.sent].pc = "refresh")
  /\ ch.dialog \in {"confirm", "invite"} \/ (ch.dialog = None /\ ~ch.row) => ~Pending(ch)
  /\ ch = UpdateTenant => \A c \in UnderWay(ch) : call[c].waits = {}
  /\ ch = ProfileDetailsForm => UnderWay(ch) = {}

Submit(c, ch) ==
  /\ call[c].pc = "idle"
  /\ ch.page = page
  /\ Free(ch)
  /\ ch.row /\ ch.dialog = None => RowShown(ch)
  /\ call' = [call EXCEPT ![c] = [NoCall EXCEPT !.pc = "sent", !.change = ch,
                                                !.account = account, !.here = TRUE]]
  /\ dialog' = IF ch.dialog = None THEN dialog ELSE [dialog EXCEPT !.sent = c]
  /\ UNCHANGED <<made, screen, cache, mine, raced>>

\* The API makes the change.
Apply(c) ==
  /\ call[c].pc = "sent"
  /\ made < MaxChanges
  /\ made' = made + 1
  /\ call' = [call EXCEPT ![c].pc = "applied", ![c].version = made + 1]
  /\ UNCHANGED <<screen, cache, dialog, mine, raced>>

\* The API refuses the change, or its answer is lost: the page says so and the
\* dialog stays.
Reject(c) ==
  /\ call[c].pc \in {"sent", "applied"}
  /\ call' = [call EXCEPT ![c] = NoCall]
  /\ dialog' = IF dialog.sent = c THEN [dialog EXCEPT !.sent = None] ELSE dialog
  /\ UNCHANGED <<made, screen, cache, mine, raced>>

\* Asking again for the lists of c's change, from the step it is at; the calls that
\* waited for a fetch given up for it go on.
AskFor(c, step) ==
  LET keys == Under(call[c].change.families[step])
      cut == Cancelled(keys)
  IN  /\ Invalidate(keys)
      /\ call' = [d \in Calls |->
           IF d = c
           THEN IF call[c].change.waits
                THEN [call[c] EXCEPT !.pc = "refresh", !.step = step,
                                     !.waits = keys \cap Mounted]
                ELSE NoCall
           ELSE Missed(cut)[d]]

Closes(c) ==
  dialog' = IF call[c].here /\ dialog # NoDialog
               /\ dialog.of.dialog = call[c].change.dialog
            THEN NoDialog
            ELSE dialog

\* The answer: the change was made.  A page that does not wait closes its dialog.
Confirm(c) ==
  LET a == call[c].account
      ch == call[c].change
  IN  /\ call[c].pc = "applied"
      /\ AskFor(c, 1)
      /\ mine' = [mine EXCEPT ![a] = [l \in Names |->
                    IF l \in KeptUpWith(ch) /\ call[c].version > @[l]
                    THEN call[c].version ELSE @[l]]]
      /\ IF ch.waits THEN UNCHANGED dialog ELSE Closes(c)
      /\ UNCHANGED <<made, screen, raced>>

\* Mutant: the lists are asked for and not waited for.
CaughtUpAtOnce(c) == call[c].pc = "refresh"

CaughtUp(c) == call[c].pc = "refresh" /\ call[c].waits = {}

\* The next list, or done.
Continue(c) ==
  /\ CaughtUp(c)
  /\ IF call[c].step < Len(call[c].change.families)
     THEN AskFor(c, call[c].step + 1) /\ UNCHANGED dialog
     ELSE /\ Closes(c)
          /\ call' = [call EXCEPT ![c] = NoCall]
          /\ UNCHANGED cache
  /\ UNCHANGED <<made, screen, mine, raced>>

-----------------------------------------------------------------------------

FetchStep(k) == ReadList(k) \/ Answer(k) \/ Fail(k)

CallStep(c) == Apply(c) \/ Reject(c) \/ Confirm(c) \/ Continue(c)

UserStep ==
  \/ \E a \in Accounts, p \in PagesInPlay : SignIn(a, p)
  \/ SignOut
  \/ \E p \in PagesInPlay : Visit(p)
  \/ \E q \in Queries : Browse(q)
  \/ Refetch
  \/ Reload
  \/ \E ch \in Changes : OpenDialog(ch)
  \/ CloseDialog
  \/ \E c \in Calls, ch \in Changes : Submit(c, ch)

Next ==
  \/ UserStep
  \/ \E k \in Keys : FetchStep(k) \/ Retry(k) \/ Collect(k)
  \/ \E c \in Calls : CallStep(c)

Spec == Init /\ [][Next]_vars

-----------------------------------------------------------------------------
(* Properties *)

\* A list that is not being fetched and passes for current holds the last change its
\* user was told had succeeded ("Client updated") of those it is kept up with, unless its
\* last answer came of a fetch that was under way when the change succeeded and could not
\* be started anew.  The changes of LeftAlone are not among them.
OwnChangesKept ==
  \A k \in Keys :
    LET e == cache[k]
    IN  e.data # None /\ e.fetch = None /\ ~e.invalid /\ k \notin raced =>
          e.data.version >= mine[e.data.account][k[1]]

\* Refuted.  What is on the screen was read for the user who is signed in, so
\* that no data of another tenant is (docs/identity-and-tenancy.md:30-31).
OwnRowsShown == \A k \in Mounted : Shown(k) # None => Shown(k).account = account

\* When the dialog for a user's roles or an invitation closes because it was saved,
\* the lists behind it show that, unless they failed to load, were asked for anew by
\* another change meanwhile, or raced as above (UserRolesDialog.tsx:54-56).
ShownOnClose ==
  [][\A c \in Calls :
       (call[c].pc = "refresh" /\ dialog.sent = c /\ dialog' = NoDialog
          /\ call'[c].pc = "idle" /\ UNCHANGED cache) =>
         \/ call[c].cut
         \/ \A k \in Mounted \ raced :
              (k[1] \in KeptUpWith(call[c].change) /\ cache[k].data # None) =>
                cache[k].data.version >= call[c].version]_vars

=============================================================================
