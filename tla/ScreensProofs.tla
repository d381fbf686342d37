---------------------------- MODULE ScreensProofs ----------------------------
(***************************************************************************)
(* Theorems about Screens for every set of accounts, searches and calls,   *)
(* any of the pages, and any number of changes and moves.                  *)
(***************************************************************************)
EXTENDS Screens, TLAPS

-----------------------------------------------------------------------------
(* The inductive invariant *)

\* Somebody is signed in when a page is on the screen.
PageOK == page = None <=> account = None

CallsOK ==
  \A c \in Calls :
    /\ call[c].pc # "idle" => call[c].change \in Changes /\ call[c].account \in Accounts
    /\ call[c].version <= made

MineOK == \A a \in Accounts : \A l \in Names : mine[a][l] <= made

\* What an answer, there or on its way, says of the changes its user was told of.
Current(k) ==
  LET e == cache[k]
      told(a) == mine[a][k[1]]
  IN  /\ e.data # None /\ ~e.invalid /\ k \notin raced =>
           e.data.version >= told(e.data.account)
      /\ e.fetch # None /\ e.fetch.read # None /\ ~e.fetch.late =>
           e.fetch.read[1] >= told(e.fetch.account)

\* What the lists show of a save whose dialog waits for them.
Behind(c, k) ==
  LET e == cache[k]
      waiting == call[c].pc = "refresh" /\ ~call[c].cut /\ dialog.sent = c
      behind == k \in Mounted /\ k[1] \in KeptUpWith(call[c].change)
  IN  waiting /\ behind =>
        /\ e.fetch # None /\ e.fetch.read # None /\ ~e.fetch.late =>
             e.fetch.read[1] >= call[c].version
        /\ k \notin call[c].waits \cup raced /\ e.data # None =>
             e.data.version >= call[c].version

Good == TypeOK /\ PageOK /\ CallsOK /\ MineOK

-----------------------------------------------------------------------------
(* Pages, lists and changes *)

LEMMA NamesApart ==
  /\ None \notin Accounts /\ None \notin Calls /\ None \notin Pages
  /\ None \notin PagesInPlay
  /\ None \notin Answers /\ None \notin Readings /\ None \notin Fetches
BY NamesAssumption

(* A request just sent. *)
LEMMA FetchSent ==
  ASSUME NEW a \in Accounts
  PROVE  Fetch(a) \in Fetches /\ Fetch(a) # None
<1>1. Fetch(a) \in Fetches
  BY DEF Fetch, Fetches
<1>. QED BY <1>1, NamesApart

(* The queries of a page are queries of the app. *)
LEMMA ShowsKeys ==
  ASSUME NEW p \in PagesInPlay \cup {None}, NEW q \in Queries
  PROVE  Shows(p, q) \subseteq Keys
BY BoundsAssumption DEF Shows, Keys, Names

LEMMA MountedKeys ==
  ASSUME TypeOK
  PROVE  Mounted \subseteq Keys
BY ShowsKeys DEF TypeOK, Mounted

(* The changes of the app, and its lists. *)
LEMMA AllChanges ==
  ASSUME NEW ch \in Changes
  PROVE  ch \in {ClientFormDialog, DeleteClient, ProjectFormDialog, DeleteProject,
                 InviteUserDialog, UserRolesDialog, SetStatus, WithdrawInvitation,
                 UpdateTenant, ProfileDetailsForm, ChangePasswordForm, RevokeSession}
<1>1. PICK p \in Pages : ch \in App(p).changes
  BY NamesAssumption DEF Changes
<1>. QED
  BY <1>1 DEF Pages, App, DashboardPage, ClientsListPage, ProjectsListPage, UsersListPage,
     SettingsPage, ProfilePage, AuditLogPage

LEMMA AllLists ==
  Names \subseteq ClientLists \cup ProjectLists \cup UserLists
                    \cup {"tenant", "sessions", "auditLogs"}
<1>1. ASSUME NEW l \in Names
      PROVE  l \in ClientLists \cup ProjectLists \cup UserLists
                     \cup {"tenant", "sessions", "auditLogs"}
  <2>1. PICK o \in Pages : l \in App(o).lists
    BY NamesAssumption DEF Names, Lists
  <2>. QED
    BY <2>1 DEF Pages, App, DashboardPage, ClientsListPage, ProjectsListPage, UsersListPage,
       SettingsPage, ProfilePage, AuditLogPage, ClientLists, ProjectLists, UserLists
<1>. QED BY <1>1

(* The lists kept up with a change are the first asked for again after it. *)
LEMMA FamilyCovers ==
  ASSUME NEW ch \in Changes, NEW l \in KeptUpWith(ch)
  PROVE  l \in ch.families[1]
<1>1. l \in Names /\ ch.table \in Reads(l) /\ l \notin LeftAlone(ch)
  BY DEF KeptUpWith
<1>2. l \in ClientLists \cup ProjectLists \cup UserLists \cup {"tenant", "sessions"}
  BY <1>1, AllLists DEF LeftAlone
<1>3. CASE ch \in {ClientFormDialog, DeleteClient}
  <2>1. ch.table = "clients" /\ ch.families[1] = ClientLists
    BY <1>3 DEF ClientFormDialog, DeleteClient, Change
  <2>2. l # "projects"
    BY <1>1, <2>1 DEF LeftAlone
  <2>. QED BY <1>1, <1>2, <2>1, <2>2 DEF Reads, ClientLists, ProjectLists, UserLists
<1>4. CASE ch \in {ProjectFormDialog, DeleteProject}
  <2>1. ch.table = "projects" /\ ch.families[1] = ProjectLists
    BY <1>4 DEF ProjectFormDialog, DeleteProject, Change
  <2>2. l # "clients"
    BY <1>1, <2>1 DEF LeftAlone
  <2>. QED BY <1>1, <1>2, <2>1, <2>2 DEF Reads, ClientLists, ProjectLists, UserLists
<1>5. CASE ch \in {InviteUserDialog, UserRolesDialog, SetStatus, WithdrawInvitation}
  <2>1. ch.table \in {"users", "invitations"} /\ ch.families[1] = UserLists
    BY <1>5 DEF InviteUserDialog, UserRolesDialog, SetStatus, WithdrawInvitation,
       TeamRefresh, Change
  <2>. QED BY <1>1, <1>2, <2>1 DEF Reads, ClientLists, ProjectLists, UserLists
<1>6. CASE ch = UpdateTenant
  <2>1. ch.table = "tenants" /\ ch.families[1] = {"tenant"}
    BY <1>6 DEF UpdateTenant, Change
  <2>. QED BY <1>1, <1>2, <2>1 DEF Reads, ClientLists, ProjectLists, UserLists
<1>7. CASE ch \in {ChangePasswordForm, RevokeSession}
  <2>1. ch.table = "sessions" /\ ch.families[1] = {"sessions"}
    BY <1>7 DEF ChangePasswordForm, RevokeSession, Change
  <2>. QED BY <1>1, <1>2, <2>1 DEF Reads, ClientLists, ProjectLists, UserLists
<1>8. CASE ch = ProfileDetailsForm
  <2>1. ch.table = "users"
    BY <1>8 DEF ProfileDetailsForm, Change
  <2>2. l # "users"
    BY <1>1, <1>8 DEF LeftAlone
  <2>. QED BY <1>1, <1>2, <2>1, <2>2 DEF Reads, ClientLists, ProjectLists, UserLists
<1>. QED BY AllChanges, <1>3, <1>4, <1>5, <1>6, <1>7, <1>8

-----------------------------------------------------------------------------
(* Asking for lists *)

\* A query e becomes f when a asks for it, or somebody for others: its answer stays, no
\* fetch is given up but for a new one, and nothing is valid again.
Renewed(e, f, a) ==
  /\ f.data = e.data
  /\ e.invalid => f.invalid
  /\ \/ f.fetch = e.fetch
     \/ f.fetch = Fetch(a) /\ a \in Accounts
     \/ /\ e.fetch # None
        /\ f.fetch \in Fetches /\ f.fetch.late
        /\ f.fetch.account = e.fetch.account /\ f.fetch.read = e.fetch.read

(* What a request is after a step that renews its query. *)
LEMMA RenewedFetch ==
  ASSUME NEW e \in Entry, NEW f \in Entry, NEW a, Renewed(e, f, a)
  PROVE  /\ e.fetch # None => f.fetch # None
         /\ f.fetch # None /\ f.fetch.read # None =>
              e.fetch # None /\ e.fetch.read = f.fetch.read
                /\ e.fetch.account = f.fetch.account /\ (e.fetch.late => f.fetch.late)
         /\ f.fetch # None =>
              \/ f.fetch.account = a
              \/ e.fetch # None /\ f.fetch.account = e.fetch.account
<1>1. a \in Accounts => Fetch(a) # None /\ Fetch(a).read = None /\ Fetch(a).account = a
  BY FetchSent DEF Fetch
<1>2. \A g \in Fetches : g # None
  BY NamesApart
<1>. QED BY <1>1, <1>2 DEF Renewed

LEMMA EntryAsked ==
  ASSUME NEW e \in Entry, NEW a \in Accounts
  PROVE  LET f == [e EXCEPT !.fetch = Fetch(a)]
         IN  f \in Entry /\ Renewed(e, f, a) /\ f.invalid = e.invalid /\ f.fetch = Fetch(a)
BY FetchSent DEF Entry, Renewed

LEMMA MountRenews ==
  ASSUME TypeOK, NEW keys, NEW a \in Accounts, Mount(keys, a)
  PROVE  /\ cache' \in [Keys -> Entry]
         /\ \A k \in Keys : Renewed(cache[k], cache'[k], a)
<1>1. ASSUME NEW k \in Keys
      PROVE  cache'[k] \in {cache[k], [cache[k] EXCEPT !.fetch = Fetch(a)]}
  BY <1>1 DEF Mount
<1>2. ASSUME NEW k \in Keys
      PROVE  cache'[k] \in Entry /\ Renewed(cache[k], cache'[k], a)
  <2>1. cache[k] \in Entry
    BY DEF TypeOK
  <2>2. CASE cache'[k] = cache[k]
    BY <2>1, <2>2 DEF Renewed
  <2>3. CASE cache'[k] = [cache[k] EXCEPT !.fetch = Fetch(a)]
    BY <2>1, <2>3, EntryAsked
  <2>. QED BY <1>1, <2>2, <2>3
<1>3. cache' = [k \in Keys |-> cache'[k]]
  BY DEF Mount
<1>. QED BY <1>2, <1>3

(* A query on the screen is asked for again by whoever is signed in. *)
LEMMA Refetching ==
  ASSUME account \in Accounts, NEW e \in Entry
  PROVE  /\ Refetched(e) \in Entry /\ Renewed(e, Refetched(e), account)
         /\ Refetched(e).invalid = e.invalid
         /\ Refetched(e).fetch # None
         /\ Refetched(e).fetch = e.fetch \/ Refetched(e).fetch = Fetch(account)
         /\ e.fetch # None /\ e.data = None => Refetched(e).fetch = e.fetch
         /\ e.fetch # None /\ e.data # None => Refetched(e).fetch = Fetch(account)
BY EntryAsked, FetchSent DEF Refetched, Renewed

LEMMA AskingAgain ==
  ASSUME TypeOK, PageOK, NEW k \in Keys, NEW f, f = AskAgain(k)
  PROVE  /\ f \in Entry /\ Renewed(cache[k], f, account) /\ f.invalid
         /\ k \in Mounted => f.fetch # None
         /\ \/ f.fetch = cache[k].fetch
            \/ /\ f.fetch = Fetch(account) /\ account \in Accounts
               /\ cache[k].fetch # None => k \in Mounted /\ cache[k].data # None
         /\ k \in Mounted /\ cache[k].fetch # None /\ cache[k].data # None =>
              f.fetch = Fetch(account) /\ account \in Accounts
<1>. DEFINE e == [cache[k] EXCEPT !.invalid = TRUE]
<1>1. cache[k] \in Entry
  BY DEF TypeOK
<1>2. /\ e \in Entry /\ e.invalid
      /\ e.data = cache[k].data /\ e.fetch = cache[k].fetch
  BY <1>1 DEF Entry
<1>3. Mounted # {} => account \in Accounts
  BY DEF Mounted, Shows, PageOK, TypeOK
<1>. HIDE DEF e
<1>4. f = IF k \in Mounted THEN Refetched(e) ELSE e
  BY DEF AskAgain, e
<1>5. CASE k \in Mounted
  <2>1. account \in Accounts
    BY <1>3, <1>5
  <2>. QED BY <1>2, <1>4, <1>5, <2>1, Refetching DEF Renewed
<1>6. CASE k \notin Mounted
  BY <1>2, <1>4, <1>6 DEF Renewed
<1>. QED BY <1>5, <1>6

(* Whatever is asked for again after a change: what was read before is late. *)
LEMMA InvalidateRenews ==
  ASSUME TypeOK, PageOK, NEW keys, Invalidate(keys)
  PROVE  /\ cache' \in [Keys -> Entry]
         /\ \A k \in Keys : Renewed(cache[k], cache'[k], account)
         /\ \A k \in Keys \cap keys :
              /\ cache'[k].invalid
              /\ k \in Mounted => cache'[k].fetch # None
              /\ cache'[k].fetch # None /\ cache'[k].fetch.read # None =>
                   cache'[k].fetch.late
<1>0. cache' = [k \in Keys |-> cache'[k]]
  BY DEF Invalidate
<1>1. ASSUME NEW k \in Keys
      PROVE  /\ cache'[k] \in Entry /\ Renewed(cache[k], cache'[k], account)
             /\ k \in keys =>
                  /\ cache'[k].invalid
                  /\ k \in Mounted => cache'[k].fetch # None
                  /\ cache'[k].fetch # None /\ cache'[k].fetch.read # None =>
                       cache'[k].fetch.late
  <2>. DEFINE f == AskAgain(k)
  <2>0. cache[k] \in Entry
    BY DEF TypeOK
  <2>1. /\ f \in Entry /\ Renewed(cache[k], f, account) /\ f.invalid
        /\ k \in Mounted => f.fetch # None
        /\ \/ f.fetch = cache[k].fetch
           \/ /\ f.fetch = Fetch(account) /\ account \in Accounts
              /\ cache[k].fetch # None => k \in Mounted /\ cache[k].data # None
        /\ k \in Mounted /\ cache[k].fetch # None /\ cache[k].data # None =>
             f.fetch = Fetch(account) /\ account \in Accounts
    BY AskingAgain
  <2>. HIDE DEF f
  <2>2. CASE k \notin keys
    BY <2>0, <2>2 DEF Invalidate, Renewed
  <2>3. CASE k \in Overtaken(keys)
    <3>1. k \in keys /\ cache'[k] = [f EXCEPT !.fetch.late = TRUE]
      BY <2>3 DEF Invalidate, Overtaken, f
    <3>2. cache[k].fetch # None
      BY <2>3 DEF Overtaken
    <3>3. f.fetch \in Fetches /\ [f.fetch EXCEPT !.late = TRUE] \in Fetches
      BY <2>1, <3>2, FetchSent, NamesApart DEF Entry, Fetches
    <3>4. /\ cache'[k] \in Entry /\ cache'[k].data = f.data /\ cache'[k].invalid
          /\ cache'[k].fetch = [f.fetch EXCEPT !.late = TRUE]
      BY <2>1, <3>1, <3>3 DEF Entry
    <3>5. /\ cache'[k].fetch.late /\ cache'[k].fetch.read = f.fetch.read
          /\ cache'[k].fetch.account = f.fetch.account
      BY <3>3, <3>4 DEF Fetches
    <3>6. cache[k].fetch.read # None
      BY <2>3 DEF Overtaken
    <3>7. f.fetch = cache[k].fetch
      BY <2>1, <2>3 DEF Overtaken, Cancelled
    <3>. QED BY <2>1, <3>1, <3>2, <3>3, <3>4, <3>5, <3>7, NamesApart DEF Renewed
  <2>4. CASE k \in keys \ Overtaken(keys)
    <3>1. cache'[k] = f
      BY <2>4 DEF Invalidate, f
    <3>2. cache[k].fetch = None \/ cache[k].fetch.read = None \/ k \in Cancelled(keys)
      BY <2>4 DEF Overtaken
    <3>3. account \in Accounts => Fetch(account).read = None
      BY DEF Fetch
    <3>4. f.fetch # None => f.fetch.read = None
      BY <2>1, <3>2, <3>3 DEF Cancelled
    <3>. QED BY <2>1, <3>1, <3>4
  <2>. QED BY <2>2, <2>3, <2>4 DEF Overtaken
<1>. QED BY <1>0, <1>1

-----------------------------------------------------------------------------
(* The changes under way *)

\* A call goes on as it was, or waits for less.
Lighter(b, d) ==
  /\ d.pc = b.pc /\ d.change = b.change /\ d.account = b.account
  /\ d.version = b.version
  /\ d.waits \subseteq b.waits
  /\ b.cut => d.cut

LEMMA NoCallTyped ==
  /\ NoCall \in Call /\ NoCall.pc = "idle" /\ NoCall.waits = {}
  /\ NoCall.version = 0 /\ 0 \in 0..MaxChanges
BY BoundsAssumption DEF NoCall, Call

LEMMA LeaveLightens ==
  ASSUME TypeOK, Leave
  PROVE  /\ call' \in [Calls -> Call]
         /\ \A c \in Calls : Lighter(call[c], call'[c]) /\ call'[c].waits = call[c].waits
<1>1. ASSUME NEW c \in Calls
      PROVE  /\ call'[c] \in Call
             /\ Lighter(call[c], call'[c]) /\ call'[c].waits = call[c].waits
  <2>1. call[c] \in Call
    BY DEF TypeOK
  <2>2. call'[c] = [call[c] EXCEPT !.here = FALSE]
    BY DEF Leave
  <2>. QED BY <2>1, <2>2 DEF Call, Lighter
<1>. QED BY <1>1 DEF Leave

LEMMA ReleasedLightens ==
  ASSUME TypeOK, NEW keys, NEW next, next = Released(keys)
  PROVE  /\ next \in [Calls -> Call]
         /\ \A c \in Calls : /\ Lighter(call[c], next[c])
                             /\ next[c].waits = call[c].waits \ keys
<1>1. ASSUME NEW c \in Calls
      PROVE  /\ next[c] \in Call
             /\ Lighter(call[c], next[c]) /\ next[c].waits = call[c].waits \ keys
  <2>1. call[c] \in Call
    BY DEF TypeOK
  <2>2. next[c] = [call[c] EXCEPT !.waits = call[c].waits \ keys]
    BY DEF Released
  <2>3. call[c].waits \ keys \in SUBSET Keys
    BY <2>1 DEF Call
  <2>4. next[c] \in Call
    BY <2>1, <2>2, <2>3, Zenon DEF Call
  <2>5. Lighter(call[c], next[c]) /\ next[c].waits = call[c].waits \ keys
    BY <2>1, <2>2 DEF Call, Lighter
  <2>. QED BY <2>4, <2>5
<1>. QED BY <1>1 DEF Released

LEMMA MissedLightens ==
  ASSUME TypeOK, NEW keys, NEW next, next = Missed(keys)
  PROVE  /\ next \in [Calls -> Call]
         /\ \A c \in Calls : /\ Lighter(call[c], next[c])
                             /\ next[c].waits = call[c].waits \ keys
                             /\ ~next[c].cut => next[c].waits = call[c].waits
<1>1. ASSUME NEW c \in Calls
      PROVE  /\ next[c] \in Call
             /\ Lighter(call[c], next[c]) /\ next[c].waits = call[c].waits \ keys
             /\ ~next[c].cut => next[c].waits = call[c].waits
  <2>. DEFINE missed == call[c].cut \/ call[c].waits \cap keys # {}
  <2>1. call[c] \in Call /\ missed \in BOOLEAN
    BY DEF TypeOK
  <2>2. next[c] = [call[c] EXCEPT !.waits = call[c].waits \ keys, !.cut = missed]
    BY Zenon DEF Missed
  <2>3. call[c].waits \ keys \in SUBSET Keys
    BY <2>1 DEF Call
  <2>4. call[c].waits \cap keys = {} => call[c].waits \ keys = call[c].waits
    OBVIOUS
  <2>5. ~missed => call[c].waits \ keys = call[c].waits
    BY <2>4
  <2>6. call[c].waits \ keys \subseteq call[c].waits
    OBVIOUS
  <2>7. call[c].cut => missed
    OBVIOUS
  <2>. HIDE DEF missed
  <2>8. next[c] \in Call
    BY <2>1, <2>2, <2>3, Zenon DEF Call
  <2>9. next[c].cut = missed /\ next[c].waits = call[c].waits \ keys
    BY <2>1, <2>2, Zenon DEF Call
  <2>10. /\ next[c].pc = call[c].pc /\ next[c].change = call[c].change
         /\ next[c].account = call[c].account /\ next[c].version = call[c].version
    BY <2>1, <2>2, Zenon DEF Call
  <2>. QED BY <2>5, <2>6, <2>7, <2>8, <2>9, <2>10 DEF Lighter
<1>. QED BY <1>1, Zenon DEF Missed

(* The call that has its lists asked for, and the others. *)
LEMMA AskForCalls ==
  ASSUME TypeOK, NEW c \in Calls, NEW step \in Nat, AskFor(c, step),
         NEW keys, keys = Under(call[c].change.families[step])
  PROVE  /\ Invalidate(keys) /\ keys \subseteq Keys
         /\ call' \in [Calls -> Call]
         /\ \A d \in Calls \ {c} : /\ Lighter(call[d], call'[d])
                                   /\ ~call'[d].cut => call'[d].waits = call[d].waits
         /\ \/ call'[c] = NoCall /\ ~call[c].change.waits
            \/ /\ call'[c].pc = "refresh" /\ call'[c].change = call[c].change
               /\ call'[c].account = call[c].account /\ call'[c].version = call[c].version
               /\ call'[c].cut = call[c].cut
               /\ call'[c].waits = keys \cap Mounted
<1>. DEFINE missed == Missed(Cancelled(keys))
            asked == [call[c] EXCEPT !.pc = "refresh", !.step = step,
                                     !.waits = keys \cap Mounted]
<1>1. call[c] \in Call /\ keys \subseteq Keys
  BY DEF TypeOK, Under
<1>2. /\ missed \in [Calls -> Call]
      /\ \A d \in Calls : /\ Lighter(call[d], missed[d])
                          /\ ~missed[d].cut => missed[d].waits = call[d].waits
  BY MissedLightens
<1>3. /\ asked \in Call /\ asked.pc = "refresh" /\ asked.change = call[c].change
      /\ asked.account = call[c].account /\ asked.version = call[c].version
      /\ asked.cut = call[c].cut /\ asked.waits = keys \cap Mounted
  BY <1>1 DEF Call
<1>4. /\ Invalidate(keys)
      /\ call' = [d \in Calls |-> IF d = c
                                  THEN IF call[c].change.waits THEN asked ELSE NoCall
                                  ELSE missed[d]]
  BY DEF AskFor
<1>. HIDE DEF missed, asked
<1>. QED BY <1>1, <1>2, <1>3, <1>4, NoCallTyped

-----------------------------------------------------------------------------
(* Steps, and their types *)

\* The steps that leave every answer where it is.
Asks ==
  \/ \E a \in Accounts, p \in PagesInPlay : SignIn(a, p)
  \/ \E p \in PagesInPlay : Visit(p)
  \/ \E q \in Queries : Browse(q)
  \/ Refetch
  \/ \E k \in Keys : Retry(k)
  \/ \E c \in Calls : Confirm(c) \/ Continue(c)
  \/ UNCHANGED cache

LEMMA SignedIn ==
  ASSUME TypeOK, PageOK, page # None \/ Mounted # {} \/ account # None
  PROVE  account \in Accounts /\ page \in PagesInPlay
BY DEF TypeOK, PageOK, Mounted, Shows

LEMMA AsksRenew ==
  ASSUME TypeOK, PageOK, Asks
  PROVE  /\ cache' \in [Keys -> Entry]
         /\ \A k \in Keys : Renewed(cache[k], cache'[k], account')
<1>0. cache \in [Keys -> Entry]
  BY DEF TypeOK
<1>1. ASSUME NEW a \in Accounts, NEW p \in PagesInPlay, SignIn(a, p)
      PROVE  /\ cache' \in [Keys -> Entry]
             /\ \A k \in Keys : Renewed(cache[k], cache'[k], account')
  BY <1>1, MountRenews DEF SignIn
<1>2. ASSUME NEW p \in PagesInPlay, Visit(p)
      PROVE  /\ cache' \in [Keys -> Entry]
             /\ \A k \in Keys : Renewed(cache[k], cache'[k], account')
  BY <1>2, SignedIn, MountRenews DEF Visit
<1>3. ASSUME NEW q \in Queries, Browse(q)
      PROVE  /\ cache' \in [Keys -> Entry]
             /\ \A k \in Keys : Renewed(cache[k], cache'[k], account')
  <2>1. page # None /\ account' = account /\ Mount(Shows(page, q), account)
    BY <1>3 DEF Browse
  <2>. QED BY <2>1, SignedIn, MountRenews
<1>4. CASE Refetch
  <2>. DEFINE k == <<page, query>>
  <2>1. page \in {"clients", "projects"} /\ account' = account
        /\ cache' = [cache EXCEPT ![k] = Refetched(cache[k])]
    BY <1>4 DEF Refetch, screen
  <2>2. account \in Accounts
    BY <2>1, SignedIn, NamesApart DEF Pages
  <2>. HIDE DEF k
  <2>3. ASSUME NEW j \in Keys
        PROVE  cache'[j] \in Entry /\ Renewed(cache[j], cache'[j], account)
    <3>1. CASE j = k
      BY <1>0, <2>1, <2>2, <3>1, Refetching
    <3>2. CASE j # k
      BY <1>0, <2>1, <3>2 DEF Renewed
    <3>. QED BY <3>1, <3>2
  <2>. QED BY <1>0, <2>1, <2>3
<1>5. ASSUME NEW k \in Keys, Retry(k)
      PROVE  /\ cache' \in [Keys -> Entry]
             /\ \A j \in Keys : Renewed(cache[j], cache'[j], account')
  <2>1. /\ account \in Accounts /\ account' = account
        /\ cache' = [cache EXCEPT ![k] = [cache[k] EXCEPT !.fetch = Fetch(account)]]
    BY <1>5, SignedIn DEF Retry, screen
  <2>2. /\ [cache[k] EXCEPT !.fetch = Fetch(account)] \in Entry
        /\ Renewed(cache[k], [cache[k] EXCEPT !.fetch = Fetch(account)], account)
    BY <1>0, <2>1, EntryAsked
  <2>3. ASSUME NEW j \in Keys
        PROVE  cache'[j] \in Entry /\ Renewed(cache[j], cache'[j], account)
    <3>1. CASE j = k
      BY <1>0, <2>1, <2>2, <3>1
    <3>2. CASE j # k
      BY <1>0, <2>1, <3>2 DEF Renewed
    <3>. QED BY <3>1, <3>2
  <2>. QED BY <1>0, <2>1, <2>3
<1>6. ASSUME NEW c \in Calls, NEW step \in Nat, AskFor(c, step), account' = account
      PROVE  /\ cache' \in [Keys -> Entry]
             /\ \A k \in Keys : Renewed(cache[k], cache'[k], account')
  BY <1>6, InvalidateRenews DEF AskFor
<1>7. CASE UNCHANGED cache
  BY <1>0, <1>7 DEF Renewed
<1>8. ASSUME NEW c \in Calls, Confirm(c)
      PROVE  /\ cache' \in [Keys -> Entry]
             /\ \A k \in Keys : Renewed(cache[k], cache'[k], account')
  BY <1>6, <1>8 DEF Confirm, screen
<1>9. ASSUME NEW c \in Calls, Continue(c)
      PROVE  /\ cache' \in [Keys -> Entry]
             /\ \A k \in Keys : Renewed(cache[k], cache'[k], account')
  <2>1. call[c].step + 1 \in Nat
    BY DEF TypeOK, Call
  <2>2. account' = account /\ (AskFor(c, call[c].step + 1) \/ UNCHANGED cache)
    BY <1>9 DEF Continue, screen
  <2>. QED BY <1>6, <1>7, <2>1, <2>2
<1>. QED BY <1>1, <1>2, <1>3, <1>4, <1>5, <1>7, <1>8, <1>9 DEF Asks

\* What a step leaves in place of the cache and the calls, and who looks at it.
KeepsTypes == TypeOK' /\ PageOK'

LEMMA UserTypes ==
  ASSUME TypeOK, PageOK, UserStep
  PROVE  KeepsTypes
<1>. USE DEF KeepsTypes, PageOK
<1>0. NoDialog \in [of : Changes \cup {None}, sent : Calls \cup {None}]
  BY DEF NoDialog
<1>1. ASSUME NEW a \in Accounts, NEW p \in PagesInPlay, SignIn(a, p)
      PROVE  KeepsTypes
  <2>1. cache' \in [Keys -> Entry] /\ call' \in [Calls -> Call]
    BY <1>1, MountRenews, LeaveLightens DEF SignIn, Open
  <2>. QED BY <1>0, <1>1, <2>1, BoundsAssumption, NamesApart
       DEF TypeOK, SignIn, Open, Move
<1>2. CASE SignOut
  <2>1. call' \in [Calls -> Call]
    BY <1>2, LeaveLightens DEF SignOut, Open
  <2>. QED BY <1>0, <1>2, <2>1, BoundsAssumption DEF TypeOK, SignOut, Open
<1>3. ASSUME NEW p \in PagesInPlay, Visit(p)
      PROVE  KeepsTypes
  <2>1. cache' \in [Keys -> Entry] /\ call' \in [Calls -> Call]
    BY <1>3, AsksRenew, LeaveLightens DEF Visit, Open, Asks
  <2>. QED BY <1>0, <1>3, <2>1, BoundsAssumption, NamesApart DEF TypeOK, Visit, Open, Move
<1>4. ASSUME NEW q \in Queries, Browse(q)
      PROVE  KeepsTypes
  <2>1. cache' \in [Keys -> Entry]
    BY <1>4, AsksRenew DEF Asks
  <2>2. PICK list \in Searched \cap (IF page = None THEN {} ELSE Lists(page)) :
          /\ query' = q
          /\ last' = IF list \in KeepsLast THEN Shown(<<list, query>>) ELSE None
    BY <1>4 DEF Browse
  <2>3. <<list, query>> \in Shows(page, query)
    BY <2>2 DEF Shows
  <2>4. <<list, query>> \in Keys
    BY <2>3, ShowsKeys DEF TypeOK
  <2>5. last' \in Answers \cup {None}
    BY <2>2, <2>4 DEF TypeOK, Shown, Entry
  <2>. QED BY <1>4, <2>1, <2>2, <2>5 DEF TypeOK, Browse, Move
<1>5. CASE Refetch
  <2>1. cache' \in [Keys -> Entry]
    BY <1>5, AsksRenew DEF Asks
  <2>2. call' \in [Calls -> Call]
    BY <1>5, MissedLightens DEF Refetch
  <2>. QED BY <1>5, <2>1, <2>2 DEF TypeOK, Refetch, screen
<1>6. CASE Reload
  <2>1. account \in Accounts
    BY <1>6, SignedIn DEF Reload
  <2>2. NoEntry \in Entry /\ [NoEntry EXCEPT !.fetch = Fetch(account)] \in Entry
    BY <2>1, FetchSent DEF NoEntry, Entry
  <2>3. cache' \in [Keys -> Entry] /\ call' \in [Calls -> Call]
    BY <1>6, <2>2, NoCallTyped DEF Reload
  <2>4. moves' \in Nat /\ query' \in Queries /\ last' = None
    BY <1>6, BoundsAssumption DEF TypeOK, Reload, Move
  <2>. QED BY <1>0, <1>6, <2>3, <2>4 DEF TypeOK, Reload
<1>7. ASSUME NEW ch \in Changes, OpenDialog(ch)
      PROVE  KeepsTypes
  BY <1>7 DEF TypeOK, OpenDialog, screen
<1>8. CASE CloseDialog
  BY <1>0, <1>8 DEF TypeOK, CloseDialog, screen
<1>9. ASSUME NEW c \in Calls, NEW ch \in Changes, Submit(c, ch)
      PROVE  KeepsTypes
  <2>1. [NoCall EXCEPT !.pc = "sent", !.change = ch, !.account = account, !.here = TRUE]
          \in Call
    BY NoCallTyped DEF TypeOK, Call
  <2>2. dialog' \in [of : Changes \cup {None}, sent : Calls \cup {None}]
    BY <1>9 DEF TypeOK, Submit
  <2>. QED BY <1>9, <2>1, <2>2 DEF TypeOK, Submit, screen
<1>. QED BY <1>1, <1>2, <1>3, <1>4, <1>5, <1>6, <1>7, <1>8, <1>9 DEF UserStep

LEMMA FetchTypes ==
  ASSUME TypeOK, PageOK, NEW k \in Keys, FetchStep(k) \/ Retry(k) \/ Collect(k)
  PROVE  KeepsTypes
<1>. USE DEF KeepsTypes, PageOK
<1>0. /\ cache \in [Keys -> Entry] /\ cache[k] \in Entry
      /\ NoEntry \in Entry
  BY DEF TypeOK, NoEntry, Entry
<1>1. CASE ReadList(k)
  <2>1. /\ cache[k].fetch \in Fetches /\ <<made>> \in Readings
        /\ cache' = [cache EXCEPT ![k] = [cache[k] EXCEPT !.fetch =
                                            [cache[k].fetch EXCEPT !.read = <<made>>]]]
    BY <1>0, <1>1 DEF ReadList, TypeOK, Entry, Readings
  <2>2. [cache[k].fetch EXCEPT !.read = <<made>>] \in Fetches
    BY <2>1 DEF Fetches
  <2>3. [cache[k] EXCEPT !.fetch = [cache[k].fetch EXCEPT !.read = <<made>>]] \in Entry
    BY <1>0, <2>2 DEF Entry
  <2>4. cache' \in [Keys -> Entry]
    BY <1>0, <2>1, <2>3
  <2>. QED BY <1>1, <2>4 DEF ReadList, TypeOK, screen
<1>2. CASE Answer(k)
  <2>. DEFINE f == cache[k].fetch
              data == [account |-> f.account, version |-> f.read[1]]
  <2>1. f \in Fetches /\ f.read \in Readings
    BY <1>0, <1>2 DEF Answer, Entry, Fetches
  <2>2. data \in Answers
    BY <2>1 DEF Fetches, Readings, Answers
  <2>3. [NoEntry EXCEPT !.data = data] \in Entry
    BY <2>2 DEF NoEntry, Entry
  <2>4. /\ cache' = [cache EXCEPT ![k] = [NoEntry EXCEPT !.data = data]]
        /\ call' = Released({k})
    BY <1>2 DEF Answer
  <2>5. cache' \in [Keys -> Entry] /\ call' \in [Calls -> Call]
    BY <1>0, <2>3, <2>4, ReleasedLightens
  <2>6. raced' \subseteq Keys
    BY <1>2 DEF Answer, TypeOK
  <2>. QED BY <1>2, <2>5, <2>6 DEF Answer, TypeOK, screen
<1>3. CASE Fail(k)
  <2>1. [cache[k] EXCEPT !.fetch = None] \in Entry
    BY <1>0 DEF Entry
  <2>2. cache' = [cache EXCEPT ![k] = [cache[k] EXCEPT !.fetch = None]]
        /\ call' = Missed({k})
    BY <1>3 DEF Fail
  <2>3. cache' \in [Keys -> Entry] /\ call' \in [Calls -> Call]
    BY <1>0, <2>1, <2>2, MissedLightens
  <2>. QED BY <1>3, <2>3 DEF Fail, TypeOK, screen
<1>4. CASE Retry(k)
  <2>1. cache' \in [Keys -> Entry]
    BY <1>4, AsksRenew DEF Asks
  <2>. QED BY <1>4, <2>1 DEF Retry, TypeOK, screen
<1>5. CASE Collect(k)
  BY <1>0, <1>5 DEF Collect, TypeOK, screen
<1>. QED BY <1>1, <1>2, <1>3, <1>4, <1>5 DEF FetchStep

(* What a user has been told, list by list. *)
LEMMA MineTold ==
  ASSUME TypeOK, NEW c \in Calls, Confirm(c)
  PROVE  /\ mine' \in [Accounts -> [Names -> 0..MaxChanges]]
         /\ \A b \in Accounts : \A l \in Names :
              mine'[b][l] \in {mine[b][l]}
                \cup IF l \in KeptUpWith(call[c].change) THEN {call[c].version} ELSE {}
<1>. DEFINE a == call[c].account
            v == call[c].version
            kept == KeptUpWith(call[c].change)
            told == [l \in Names |-> IF l \in kept /\ v > mine[a][l] THEN v ELSE mine[a][l]]
<1>1. mine' = [mine EXCEPT ![a] = told]
  BY DEF Confirm
<1>2. v \in 0..MaxChanges /\ mine \in [Accounts -> [Names -> 0..MaxChanges]]
  BY DEF TypeOK, Call
<1>. HIDE DEF a, v, kept
<1>3. a \in Accounts => told \in [Names -> 0..MaxChanges]
  BY <1>2
<1>4. \A l \in Names : told[l] = IF l \in kept /\ v > mine[a][l] THEN v ELSE mine[a][l]
  OBVIOUS
<1>. HIDE DEF told
<1>5. mine' \in [Accounts -> [Names -> 0..MaxChanges]]
  BY <1>1, <1>2, <1>3
<1>6. ASSUME NEW b \in Accounts, NEW l \in Names
      PROVE  mine'[b][l] \in {mine[b][l]} \cup IF l \in kept THEN {v} ELSE {}
  <2>1. CASE b = a
    BY <1>1, <1>2, <1>4, <2>1
  <2>2. CASE b # a
    BY <1>1, <1>2, <2>2
  <2>. QED BY <2>1, <2>2
<1>. QED BY <1>5, <1>6 DEF kept, v

LEMMA CallTypes ==
  ASSUME TypeOK, PageOK, CallsOK, NEW c \in Calls, CallStep(c)
  PROVE  KeepsTypes
<1>. USE DEF KeepsTypes, PageOK
<1>0. /\ call \in [Calls -> Call] /\ call[c] \in Call
      /\ NoDialog \in [of : Changes \cup {None}, sent : Calls \cup {None}]
      /\ dialog \in [of : Changes \cup {None}, sent : Calls \cup {None}]
  BY DEF TypeOK, NoDialog
<1>1. CASE Apply(c)
  <2>1. made' \in 0..MaxChanges /\ made' = made + 1
    BY <1>1, BoundsAssumption DEF Apply, TypeOK
  <2>2. call' = [call EXCEPT ![c] = [call[c] EXCEPT !.pc = "applied", !.version = made + 1]]
    BY <1>1 DEF Apply
  <2>3. [call[c] EXCEPT !.pc = "applied", !.version = made + 1] \in Call
    BY <1>0, <2>1 DEF Call
  <2>4. call' \in [Calls -> Call]
    BY <1>0, <2>2, <2>3
  <2>. QED BY <1>1, <2>1, <2>4 DEF Apply, TypeOK, screen
<1>2. CASE Reject(c)
  <2>1. call' \in [Calls -> Call]
    BY <1>0, <1>2, NoCallTyped DEF Reject
  <2>2. dialog' \in [of : Changes \cup {None}, sent : Calls \cup {None}]
    BY <1>0, <1>2 DEF Reject
  <2>. QED BY <1>2, <2>1, <2>2 DEF Reject, TypeOK, screen
<1>3. CASE Confirm(c)
  <2>1. /\ cache' \in [Keys -> Entry] /\ call' \in [Calls -> Call]
    BY <1>3, AsksRenew, AskForCalls DEF Asks, Confirm
  <2>2. dialog' \in [of : Changes \cup {None}, sent : Calls \cup {None}]
    BY <1>0, <1>3 DEF Confirm, Closes
  <2>3. mine' \in [Accounts -> [Names -> 0..MaxChanges]]
    BY <1>3, MineTold
  <2>. QED BY <1>3, <2>1, <2>2, <2>3 DEF Confirm, TypeOK, screen
<1>4. CASE Continue(c)
  <2>1. call[c].step + 1 \in Nat
    BY <1>0 DEF Call
  <2>2. cache' \in [Keys -> Entry]
    BY <1>4, AsksRenew DEF Asks
  <2>3. call' \in [Calls -> Call]
    BY <1>0, <1>4, <2>1, AskForCalls, NoCallTyped DEF Continue
  <2>4. dialog' \in [of : Changes \cup {None}, sent : Calls \cup {None}]
    BY <1>0, <1>4 DEF Continue, Closes
  <2>. QED BY <1>4, <2>2, <2>3, <2>4 DEF Continue, TypeOK, screen
<1>. QED BY <1>1, <1>2, <1>3, <1>4 DEF CallStep

-----------------------------------------------------------------------------
(* What the calls stand for *)

\* A call is over, or stands for the change it stood for.
GoesOn(b, d) ==
  \/ d = NoCall
  \/ /\ d.pc # "idle" => b.pc # "idle"
     /\ d.change = b.change /\ d.account = b.account /\ d.version = b.version

LEMMA LighterGoesOn ==
  ASSUME NEW b, NEW d, Lighter(b, d)
  PROVE  GoesOn(b, d)
BY DEF Lighter, GoesOn

LEMMA CallsGoOn ==
  ASSUME TypeOK, CallsOK, made' \in Nat, made' >= made,
         \A c \in Calls : GoesOn(call[c], call'[c])
  PROVE  CallsOK'
<1>1. ASSUME NEW c \in Calls
      PROVE  /\ call'[c].pc # "idle" =>
                  call'[c].change \in Changes /\ call'[c].account \in Accounts
             /\ call'[c].version <= made'
  <2>1. /\ call[c] \in Call /\ made \in Nat /\ call[c].version \in Nat
        /\ GoesOn(call[c], call'[c])
    BY BoundsAssumption DEF TypeOK, Call
  <2>2. CASE call'[c] = NoCall
    BY <2>2, NoCallTyped
  <2>3. CASE call'[c] # NoCall
    BY <2>1, <2>3 DEF GoesOn, CallsOK
  <2>. QED BY <2>2, <2>3
<1>. QED BY <1>1 DEF CallsOK

(* A change is made on a page of the app. *)
LEMMA ChangePage ==
  ASSUME NEW ch \in Changes
  PROVE  ch.page \in Pages
BY AllChanges DEF ClientFormDialog, DeleteClient, ProjectFormDialog, DeleteProject,
   InviteUserDialog, UserRolesDialog, SetStatus, WithdrawInvitation, UpdateTenant,
   ProfileDetailsForm, ChangePasswordForm, RevokeSession, Change, Pages

LEMMA CallsStep ==
  ASSUME Good, [Next]_vars
  PROVE  CallsOK'
<1>. USE DEF Good
<1>0. /\ made \in Nat /\ made >= made
      /\ \A c \in Calls : call'[c] = call[c] => GoesOn(call[c], call'[c])
  BY BoundsAssumption DEF TypeOK, GoesOn
<1>1. CASE UNCHANGED <<made, call>>
  BY <1>0, <1>1, CallsGoOn
<1>2. CASE made' = made /\ Leave
  BY <1>0, <1>2, LeaveLightens, LighterGoesOn, CallsGoOn
<1>3. ASSUME NEW keys, made' = made, call' = Released(keys) \/ call' = Missed(keys)
      PROVE  CallsOK'
  BY <1>0, <1>3, ReleasedLightens, MissedLightens, LighterGoesOn, CallsGoOn
<1>4. CASE Reload
  <2>1. made' = made /\ \A c \in Calls : call'[c] = NoCall
    BY <1>4 DEF Reload
  <2>. QED BY <1>0, <2>1, CallsGoOn DEF GoesOn
<1>5. ASSUME NEW c \in Calls, NEW ch \in Changes, Submit(c, ch)
      PROVE  CallsOK'
  <2>. DEFINE sent == [NoCall EXCEPT !.pc = "sent", !.change = ch, !.account = account,
                                     !.here = TRUE]
  <2>1. account \in Accounts
    BY <1>5, ChangePage, SignedIn, NamesApart DEF Submit
  <2>2. sent.change = ch /\ sent.account = account /\ sent.version = 0
    BY DEF NoCall
  <2>3. call' = [call EXCEPT ![c] = sent] /\ made' = made
    BY <1>5 DEF Submit
  <2>4. call \in [Calls -> Call]
    BY DEF TypeOK
  <2>. HIDE DEF sent
  <2>. QED BY <1>0, <2>1, <2>2, <2>3, <2>4 DEF CallsOK
<1>6. ASSUME NEW c \in Calls, Apply(c)
      PROVE  CallsOK'
  <2>. DEFINE applied == [call[c] EXCEPT !.pc = "applied", !.version = made + 1]
  <2>1. call' = [call EXCEPT ![c] = applied] /\ made' = made + 1 /\ call[c].pc = "sent"
    BY <1>6 DEF Apply
  <2>2. call \in [Calls -> Call] /\ call[c] \in Call
    BY DEF TypeOK
  <2>3. /\ applied.change = call[c].change /\ applied.account = call[c].account
        /\ applied.version = made + 1
    BY <2>2 DEF Call
  <2>4. \A d \in Calls : call[d].version \in Nat
    BY BoundsAssumption DEF TypeOK, Call
  <2>. HIDE DEF applied
  <2>. QED BY <1>0, <2>1, <2>2, <2>3, <2>4 DEF CallsOK
<1>7. ASSUME NEW c \in Calls, made' = made,
             call' = [call EXCEPT ![c] = NoCall]
      PROVE  CallsOK'
  <2>1. \A d \in Calls : call'[d] = call[d] \/ call'[d] = NoCall
    BY <1>7 DEF TypeOK
  <2>. QED BY <1>0, <1>7, <2>1, CallsGoOn DEF GoesOn
<1>8. ASSUME NEW c \in Calls, NEW step \in Nat, AskFor(c, step), made' = made,
             call[c].pc # "idle"
      PROVE  CallsOK'
  <2>1. \A d \in Calls : GoesOn(call[d], call'[d])
    BY <1>8, AskForCalls, LighterGoesOn DEF GoesOn
  <2>. QED BY <1>0, <1>8, <2>1, CallsGoOn
<1>9. ASSUME NEW c \in Calls, Continue(c)
      PROVE  CallsOK'
  <2>1. call[c].step + 1 \in Nat
    BY DEF TypeOK, Call
  <2>2. made' = made /\ call[c].pc # "idle"
        /\ (AskFor(c, call[c].step + 1) \/ call' = [call EXCEPT ![c] = NoCall])
    BY <1>9 DEF Continue, CaughtUp
  <2>. QED BY <1>7, <1>8, <2>1, <2>2
<1>10. CASE UserStep
  BY <1>1, <1>2, <1>3, <1>4, <1>5, <1>10
  DEF UserStep, SignIn, SignOut, Visit, Browse, Refetch, OpenDialog, CloseDialog, Open
<1>11. ASSUME NEW k \in Keys, FetchStep(k) \/ Retry(k) \/ Collect(k)
       PROVE  CallsOK'
  BY <1>1, <1>3, <1>11 DEF FetchStep, ReadList, Answer, Fail, Retry, Collect
<1>12. ASSUME NEW c \in Calls, CallStep(c)
       PROVE  CallsOK'
  BY <1>6, <1>7, <1>8, <1>9, <1>12 DEF CallStep, Reject, Confirm
<1>. QED BY <1>1, <1>10, <1>11, <1>12 DEF Next, vars

(* What a user was told of was made. *)
LEMMA MineStep ==
  ASSUME Good, [Next]_vars
  PROVE  MineOK'
<1>. USE DEF Good
<1>0. /\ made \in Nat /\ mine \in [Accounts -> [Names -> 0..MaxChanges]]
      /\ \A a \in Accounts : \A l \in Names : mine[a][l] \in Nat
  BY BoundsAssumption DEF TypeOK
<1>1. CASE mine' = mine /\ (made' = made \/ made' = made + 1)
  BY <1>0, <1>1 DEF MineOK
<1>2. ASSUME NEW c \in Calls, Confirm(c)
      PROVE  MineOK'
  <2>1. made' = made /\ call[c].version <= made
    BY <1>2 DEF Confirm, CallsOK
  <2>2. \A a \in Accounts : \A l \in Names : mine'[a][l] \in {mine[a][l], call[c].version}
    BY <1>2, MineTold
  <2>. QED BY <2>1, <2>2 DEF MineOK
<1>3. CASE UserStep
  BY <1>1, <1>3, Zenon
  DEF UserStep, SignIn, SignOut, Visit, Browse, Refetch, Reload, OpenDialog, CloseDialog,
      Submit
<1>4. ASSUME NEW k \in Keys, FetchStep(k) \/ Retry(k) \/ Collect(k)
      PROVE  MineOK'
  BY <1>1, <1>4 DEF FetchStep, ReadList, Answer, Fail, Retry, Collect
<1>5. ASSUME NEW c \in Calls, CallStep(c)
      PROVE  MineOK'
  BY <1>1, <1>2, <1>5 DEF CallStep, Apply, Reject, Continue
<1>. QED BY <1>1, <1>3, <1>4, <1>5 DEF Next, vars

LEMMA GoodInit == Init => Good
<1>. SUFFICES ASSUME Init PROVE Good
  OBVIOUS
<1>1. NoEntry \in Entry /\ NoDialog \in [of : Changes \cup {None}, sent : Calls \cup {None}]
  BY DEF NoEntry, NoDialog, Entry
<1>2. TypeOK
  BY <1>1, NoCallTyped, BoundsAssumption DEF Init, TypeOK
<1>3. CallsOK
  BY NoCallTyped DEF Init, CallsOK
<1>. QED BY <1>2, <1>3 DEF Init, Good, PageOK, MineOK

LEMMA GoodStep == Good /\ [Next]_vars => Good'
<1>. SUFFICES ASSUME Good, [Next]_vars PROVE TypeOK' /\ PageOK'
  BY CallsStep, MineStep DEF Good
<1>1. CASE UNCHANGED vars
  BY <1>1 DEF Good, vars, TypeOK, PageOK
<1>. QED BY <1>1, UserTypes, FetchTypes, CallTypes DEF Good, Next, KeepsTypes

LEMMA AlwaysGood == Spec => []Good
BY GoodInit, GoodStep, PTL DEF Spec

-----------------------------------------------------------------------------
(* Own changes *)

CurrentOK == \A k \in Keys : Current(k)

LEMMA RenewedCurrent ==
  ASSUME Good, Asks, mine' = mine, raced' = raced, CurrentOK
  PROVE  CurrentOK'
<1>1. ASSUME NEW k \in Keys
      PROVE  Current(k)'
  <2>1. /\ cache[k] \in Entry /\ cache'[k] \in Entry
        /\ Renewed(cache[k], cache'[k], account')
    BY AsksRenew DEF Good, TypeOK
  <2>2. /\ cache'[k].data = cache[k].data
        /\ cache[k].invalid => cache'[k].invalid
        /\ cache'[k].fetch # None /\ cache'[k].fetch.read # None =>
             /\ cache[k].fetch # None /\ cache[k].fetch.read = cache'[k].fetch.read
             /\ cache[k].fetch.account = cache'[k].fetch.account
             /\ cache[k].fetch.late => cache'[k].fetch.late
    BY <2>1, RenewedFetch DEF Renewed
  <2>3. Current(k)
    BY DEF CurrentOK
  <2>. QED BY <2>2, <2>3 DEF Current
<1>. QED BY <1>1 DEF CurrentOK

(* A change succeeds: every answer to a list that shows its table is invalid, and every
   fetch that read before is late. *)
LEMMA ConfirmCurrent ==
  ASSUME Good, CurrentOK, NEW c \in Calls, Confirm(c)
  PROVE  CurrentOK'
<1>. DEFINE kept == KeptUpWith(call[c].change)
            keys == Under(call[c].change.families[1])
<1>1. Invalidate(keys) /\ raced' = raced
  BY DEF Confirm, AskFor
<1>2. call[c].change \in Changes
  BY DEF Good, CallsOK, Confirm
<1>. HIDE DEF kept
<1>3. ASSUME NEW k \in Keys
      PROVE  Current(k)'
  <2>1. /\ cache[k] \in Entry /\ cache'[k] \in Entry
        /\ Renewed(cache[k], cache'[k], account)
        /\ k \in keys =>
             /\ cache'[k].invalid
             /\ cache'[k].fetch # None /\ cache'[k].fetch.read # None =>
                  cache'[k].fetch.late
    BY <1>1, InvalidateRenews DEF Good, TypeOK
  <2>2. /\ cache'[k].data = cache[k].data
        /\ cache[k].invalid => cache'[k].invalid
        /\ cache'[k].fetch # None /\ cache'[k].fetch.read # None =>
             /\ cache[k].fetch # None /\ cache[k].fetch.read = cache'[k].fetch.read
             /\ cache[k].fetch.account = cache'[k].fetch.account
             /\ cache[k].fetch.late => cache'[k].fetch.late
    BY <2>1, RenewedFetch DEF Renewed
  <2>3. CASE k[1] \in kept
    <3>1. k[1] \in call[c].change.families[1]
      BY <1>2, <2>3, FamilyCovers DEF kept
    <3>2. cache[k].data # None \/ cache[k].fetch # None => k \in keys
      BY <3>1 DEF Under, NoEntry
    <3>. QED BY <2>1, <2>2, <3>2 DEF Current
  <2>4. CASE k[1] \notin kept
    <3>1. k[1] \in Names
      BY DEF Keys
    <3>2. \A b \in Accounts : mine'[b][k[1]] = mine[b][k[1]]
      BY <2>4, <3>1, MineTold DEF Good, kept
    <3>3. /\ cache[k].data # None => cache[k].data.account \in Accounts
          /\ cache[k].fetch # None => cache[k].fetch.account \in Accounts
      BY <2>1 DEF Entry, Answers, Fetches
    <3>4. Current(k)
      BY DEF CurrentOK
    <3>. QED BY <1>1, <2>2, <3>2, <3>3, <3>4 DEF Current
  <2>. QED BY <2>3, <2>4
<1>. QED BY <1>3 DEF CurrentOK

LEMMA FetchCurrent ==
  ASSUME Good, CurrentOK, NEW j \in Keys, FetchStep(j) \/ Collect(j)
  PROVE  CurrentOK'
<1>0. cache \in [Keys -> Entry] /\ mine' = mine
  BY DEF Good, TypeOK, FetchStep, ReadList, Answer, Fail, Collect
<1>1. ASSUME NEW k \in Keys
      PROVE  Current(k)'
  <2>0. cache[k] \in Entry /\ Current(k)
    BY <1>0 DEF CurrentOK
  <2>1. CASE k # j
    <3>1. cache'[k] = cache[k] /\ (k \in raced => k \in raced')
      BY <1>0, <2>1 DEF FetchStep, ReadList, Answer, Fail, Collect
    <3>. QED BY <1>0, <2>0, <3>1 DEF Current
  <2>2. CASE k = j /\ ReadList(j)
    <3>1. cache[k].fetch \in Fetches /\ raced' = raced
      BY <2>0, <2>2 DEF ReadList, Entry
    <3>2. cache' = [cache EXCEPT ![k] = [cache[k] EXCEPT !.fetch =
                                           [cache[k].fetch EXCEPT !.read = <<made>>]]]
      BY <2>2 DEF ReadList
    <3>3. /\ cache'[k].data = cache[k].data /\ cache'[k].invalid = cache[k].invalid
          /\ cache'[k].fetch.account = cache[k].fetch.account
          /\ cache'[k].fetch.read = <<made>>
      BY <1>0, <2>0, <3>1, <3>2 DEF Entry, Fetches
    <3>4. /\ cache[k].fetch.account \in Accounts
          /\ k[1] \in Names
      BY <3>1 DEF Fetches, Keys
    <3>5. mine[cache[k].fetch.account][k[1]] <= made
      BY <3>4 DEF Good, MineOK
    <3>6. made \in Nat /\ mine[cache[k].fetch.account][k[1]] \in Nat
      BY <3>4, BoundsAssumption DEF Good, TypeOK
    <3>7. /\ cache'[k].fetch.read[1] = made
          /\ made >= mine[cache[k].fetch.account][k[1]]
      BY <3>3, <3>5, <3>6
    <3>. QED BY <1>0, <2>0, <3>1, <3>3, <3>7 DEF Current
  <2>3. CASE k = j /\ Answer(j)
    <3>. DEFINE f == cache[k].fetch
                data == [account |-> f.account, version |-> f.read[1]]
    <3>1. /\ f # None /\ f.read # None
          /\ cache' = [cache EXCEPT ![k] = [NoEntry EXCEPT !.data = data]]
          /\ raced' = IF f.late THEN raced \cup {k} ELSE raced \ {k}
      BY <2>3 DEF Answer
    <3>2. /\ cache'[k].data.account = f.account /\ cache'[k].data.version = f.read[1]
          /\ cache'[k].fetch = None
      BY <1>0, <3>1 DEF NoEntry
    <3>. QED BY <1>0, <2>0, <3>1, <3>2 DEF Current
  <2>4. CASE k = j /\ Fail(j)
    <3>1. /\ cache' = [cache EXCEPT ![k] = [cache[k] EXCEPT !.fetch = None]]
          /\ raced' = raced
      BY <2>4 DEF Fail
    <3>2. /\ cache'[k].data = cache[k].data /\ cache'[k].invalid = cache[k].invalid
          /\ cache'[k].fetch = None
      BY <1>0, <2>0, <3>1 DEF Entry
    <3>. QED BY <1>0, <2>0, <3>1, <3>2 DEF Current
  <2>5. CASE k = j /\ Collect(j)
    <3>1. cache'[k].data = None /\ cache'[k].fetch = None
      BY <1>0, <2>5 DEF Collect, NoEntry
    <3>. QED BY <3>1 DEF Current
  <2>. QED BY <2>1, <2>2, <2>3, <2>4, <2>5 DEF FetchStep
<1>. QED BY <1>1 DEF CurrentOK

LEMMA CurrentStep ==
  ASSUME Good, CurrentOK, [Next]_vars
  PROVE  CurrentOK'
<1>1. CASE Asks /\ mine' = mine /\ raced' = raced
  BY <1>1, RenewedCurrent
<1>2. CASE Reload
  <2>1. ASSUME NEW k \in Keys
        PROVE  Current(k)'
    <3>1. cache'[k] \in {NoEntry, [NoEntry EXCEPT !.fetch = Fetch(account)]}
      BY <1>2 DEF Reload
    <3>2. cache'[k].data = None /\ cache'[k].fetch \in {None, Fetch(account)}
      BY <3>1 DEF NoEntry
    <3>. QED BY <3>2 DEF Current, Fetch
  <2>. QED BY <2>1 DEF CurrentOK
<1>3. CASE UserStep
  BY <1>1, <1>2, <1>3, Zenon
  DEF UserStep, Asks, SignIn, SignOut, Visit, Browse, Refetch, OpenDialog, CloseDialog,
      Submit
<1>4. CASE \E j \in Keys : FetchStep(j) \/ Retry(j) \/ Collect(j)
  BY <1>1, <1>4, FetchCurrent DEF Asks, Retry
<1>5. CASE \E c \in Calls : CallStep(c)
  BY <1>1, <1>5, ConfirmCurrent DEF Asks, CallStep, Apply, Reject, Continue
<1>6. CASE UNCHANGED vars
  BY <1>1, <1>6 DEF Asks, vars
<1>. QED BY <1>3, <1>4, <1>5, <1>6 DEF Next

-----------------------------------------------------------------------------
(* What is behind a dialog that waits for its lists *)

BehindOK == \A c \in Calls : \A k \in Keys : Behind(c, k)

\* The dialog waits for a save of which it was waiting already, and for no fewer lists.
Awaits(c) ==
  call'[c].pc = "refresh" /\ ~call'[c].cut /\ dialog'.sent = c =>
    /\ call[c].pc = "refresh" /\ ~call[c].cut /\ dialog.sent = c
    /\ call'[c].change = call[c].change /\ call'[c].version = call[c].version
    /\ call[c].waits \subseteq call'[c].waits

LEMMA RenewedBehind ==
  ASSUME Good, BehindOK, Asks, Mounted' = Mounted, raced' = raced,
         NEW c \in Calls, Awaits(c), NEW k \in Keys
  PROVE  Behind(c, k)'
<1>1. /\ cache[k] \in Entry /\ cache'[k] \in Entry
      /\ Renewed(cache[k], cache'[k], account')
  BY AsksRenew DEF Good, TypeOK
<1>2. /\ cache'[k].data = cache[k].data
      /\ cache'[k].fetch # None /\ cache'[k].fetch.read # None =>
           /\ cache[k].fetch # None /\ cache[k].fetch.read = cache'[k].fetch.read
           /\ cache[k].fetch.late => cache'[k].fetch.late
  BY <1>1, RenewedFetch DEF Renewed
<1>3. Behind(c, k)
  BY DEF BehindOK
<1>. QED BY <1>2, <1>3 DEF Behind, Awaits

(* No dialog waits after a step that closes it with the page, or was taken without one. *)
LEMMA NobodyWaits ==
  ASSUME dialog' = NoDialog \/ dialog'.sent = None
  PROVE  BehindOK'
BY NamesApart DEF NoDialog, BehindOK, Behind

LEMMA LighterAwaits ==
  ASSUME NEW c \in Calls, Lighter(call[c], call'[c]), dialog' = dialog,
         ~call'[c].cut => call'[c].waits = call[c].waits
  PROVE  Awaits(c)
BY DEF Lighter, Awaits

(* A change succeeds, and the dialog goes on to wait for its lists. *)
LEMMA AskForBehind ==
  ASSUME Good, BehindOK, NEW c \in Calls, NEW step \in Nat, AskFor(c, step),
         UNCHANGED <<made, screen, raced>>, Asks,
         \/ call[c].pc = "applied" /\ step = 1
         \/ CaughtUp(c) /\ UNCHANGED dialog,
         dialog' = dialog \/ dialog' = NoDialog
  PROVE  BehindOK'
<1>. DEFINE keys == Under(call[c].change.families[step])
<1>0. /\ Mounted' = Mounted /\ raced' = raced
      /\ dialog' # dialog => dialog'.sent = None
  BY DEF Mounted, screen, Shows, NoDialog
<1>1. /\ Invalidate(keys) /\ keys \subseteq Keys
      /\ \A d \in Calls \ {c} : /\ Lighter(call[d], call'[d])
                                /\ ~call'[d].cut => call'[d].waits = call[d].waits
      /\ \/ call'[c] = NoCall
         \/ /\ call'[c].change = call[c].change /\ call'[c].version = call[c].version
            /\ call'[c].cut = call[c].cut
            /\ call'[c].waits = keys \cap Mounted
  BY AskForCalls DEF Good
<1>2. ASSUME NEW k \in Keys, NEW d \in Calls \ {c}
      PROVE  Behind(d, k)'
  <2>1. CASE dialog' = dialog
    BY <1>0, <1>1, <2>1, LighterAwaits, RenewedBehind
  <2>2. CASE dialog' # dialog
    BY <1>0, <2>2, NamesApart DEF Behind
  <2>. QED BY <2>1, <2>2
<1>3. ASSUME NEW k \in Keys
      PROVE  Behind(c, k)'
  <2>1. CASE call'[c] = NoCall
    BY <2>1, NoCallTyped DEF Behind
  <2>2. CASE CaughtUp(c) /\ UNCHANGED dialog /\ call'[c] # NoCall
    <3>1. Awaits(c)
      BY <1>1, <2>2 DEF CaughtUp, Awaits
    <3>. QED BY <1>0, <3>1, RenewedBehind
  <2>3. CASE call[c].pc = "applied" /\ step = 1 /\ call'[c] # NoCall
    <3>1. call[c].change \in Changes
      BY <2>3 DEF Good, CallsOK
    <3>2. ASSUME k \in Mounted', k[1] \in KeptUpWith(call'[c].change)
          PROVE  k \in keys /\ k \in call'[c].waits
      <4>1. k[1] \in call[c].change.families[1]
        BY <1>1, <2>3, <3>1, <3>2, FamilyCovers
      <4>. QED BY <1>0, <1>1, <2>3, <3>2, <4>1 DEF Under
    <3>3. k \in keys => (cache'[k].fetch # None /\ cache'[k].fetch.read # None =>
                           cache'[k].fetch.late)
      BY <1>1, InvalidateRenews DEF Good
    <3>. QED BY <3>2, <3>3 DEF Behind
  <2>. QED BY <2>1, <2>2, <2>3
<1>. QED BY <1>2, <1>3 DEF BehindOK

LEMMA FetchBehind ==
  ASSUME Good, BehindOK, NEW j \in Keys, FetchStep(j) \/ Collect(j),
         NEW c \in Calls, NEW k \in Keys
  PROVE  Behind(c, k)'
<1>0. /\ cache \in [Keys -> Entry] /\ cache[k] \in Entry /\ Behind(c, k)
      /\ Mounted' = Mounted /\ dialog' = dialog
  <2>1. UNCHANGED <<screen, dialog>>
    BY DEF FetchStep, ReadList, Answer, Fail, Collect
  <2>. QED BY <2>1 DEF Good, TypeOK, BehindOK, screen, Mounted, Shows
<1>1. /\ Lighter(call[c], call'[c])
      /\ ~call'[c].cut /\ k # j /\ k \in call[c].waits => k \in call'[c].waits
  <2>1. CASE call' = call
    BY <2>1 DEF Lighter
  <2>2. CASE call' = Released({j})
    BY <2>2, ReleasedLightens DEF Good
  <2>3. CASE call' = Missed({j})
    BY <2>3, MissedLightens DEF Good
  <2>. QED BY <2>1, <2>2, <2>3 DEF FetchStep, ReadList, Answer, Fail, Collect
<1>2. call'[c].pc = "refresh" /\ ~call'[c].cut /\ dialog'.sent = c =>
        /\ call[c].pc = "refresh" /\ ~call[c].cut /\ dialog.sent = c
        /\ call'[c].change = call[c].change /\ call'[c].version = call[c].version
  BY <1>0, <1>1 DEF Lighter
<1>3. CASE k # j
  <2>1. cache'[k] = cache[k] /\ (k \in raced => k \in raced')
    BY <1>0, <1>3 DEF FetchStep, ReadList, Answer, Fail, Collect
  <2>. QED BY <1>0, <1>1, <1>2, <1>3, <2>1 DEF Behind
<1>4. CASE k = j /\ ReadList(j)
  <2>1. cache[k].fetch \in Fetches /\ raced' = raced /\ call' = call
    BY <1>0, <1>4 DEF ReadList, Entry
  <2>2. cache' = [cache EXCEPT ![k] = [cache[k] EXCEPT !.fetch =
                                         [cache[k].fetch EXCEPT !.read = <<made>>]]]
    BY <1>4 DEF ReadList
  <2>3. cache'[k].data = cache[k].data /\ cache'[k].fetch.read = <<made>>
    BY <1>0, <2>1, <2>2 DEF Entry, Fetches
  <2>4. call[c].version <= made /\ call[c].version \in Nat /\ made \in Nat
    BY BoundsAssumption DEF Good, CallsOK, TypeOK, Call
  <2>5. cache'[k].fetch.read[1] = made /\ made >= call[c].version
    BY <2>3, <2>4
  <2>. QED BY <1>0, <1>2, <2>1, <2>3, <2>5 DEF Behind
<1>5. CASE k = j /\ Answer(j)
  <2>. DEFINE f == cache[k].fetch
              data == [account |-> f.account, version |-> f.read[1]]
  <2>1. /\ f # None /\ f.read # None
        /\ cache' = [cache EXCEPT ![k] = [NoEntry EXCEPT !.data = data]]
        /\ raced' = IF f.late THEN raced \cup {k} ELSE raced \ {k}
    BY <1>5 DEF Answer
  <2>2. cache'[k].data.version = f.read[1] /\ cache'[k].fetch = None
    BY <1>0, <2>1 DEF NoEntry
  <2>. QED BY <1>0, <1>2, <2>1, <2>2 DEF Behind
<1>6. CASE k = j /\ Fail(j)
  <2>1. /\ cache' = [cache EXCEPT ![k] = [cache[k] EXCEPT !.fetch = None]]
        /\ raced' = raced /\ call' = Missed({j})
    BY <1>6 DEF Fail
  <2>2. cache'[k].data = cache[k].data /\ cache'[k].fetch = None
    BY <1>0, <2>1 DEF Entry
  <2>3. ~call'[c].cut => call'[c].waits = call[c].waits
    BY <2>1, MissedLightens DEF Good
  <2>. QED BY <1>0, <1>2, <2>1, <2>2, <2>3 DEF Behind
<1>7. CASE k = j /\ Collect(j)
  <2>1. k \notin Mounted
    BY <1>7 DEF Collect
  <2>. QED BY <1>0, <2>1 DEF Behind
<1>. QED BY <1>3, <1>4, <1>5, <1>6, <1>7 DEF FetchStep

LEMMA BehindStep ==
  ASSUME Good, BehindOK, [Next]_vars
  PROVE  BehindOK'
<1>. USE DEF Good
<1>0. /\ call \in [Calls -> Call]
      /\ dialog \in [of : Changes \cup {None}, sent : Calls \cup {None}]
  BY DEF TypeOK
<1>1. CASE dialog' = NoDialog \/ dialog'.sent = None
  BY <1>1, NobodyWaits
<1>2. CASE Asks /\ UNCHANGED <<screen, raced>> /\ \A c \in Calls : Awaits(c)
  <2>1. Mounted' = Mounted /\ raced' = raced
    BY <1>2 DEF Mounted, screen, Shows
  <2>. QED BY <1>2, <2>1, RenewedBehind DEF BehindOK
<1>3. CASE UserStep
  <2>1. CASE \/ \E a \in Accounts, p \in PagesInPlay : SignIn(a, p)
             \/ \E p \in PagesInPlay : Visit(p)
             \/ SignOut \/ Reload \/ CloseDialog
             \/ \E q \in Queries : Browse(q)
             \/ \E ch \in Changes : OpenDialog(ch)
    BY <1>1, <2>1
    DEF SignIn, Visit, SignOut, Reload, CloseDialog, Browse, OpenDialog, Open, NoDialog
  <2>2. CASE Refetch
    <3>1. dialog' = NoDialog
      BY <2>2 DEF Refetch
    <3>. QED BY <1>1, <3>1
  <2>3. ASSUME NEW c \in Calls, NEW ch \in Changes, Submit(c, ch)
        PROVE  BehindOK'
    <3>. DEFINE sent == [NoCall EXCEPT !.pc = "sent", !.change = ch, !.account = account,
                                       !.here = TRUE]
    <3>1. sent.pc = "sent"
      BY DEF NoCall
    <3>2. /\ call' = [call EXCEPT ![c] = sent] /\ UNCHANGED <<cache, screen, raced>>
          /\ dialog' = dialog \/ dialog'.sent = c
      BY <1>0, <2>3 DEF Submit
    <3>. HIDE DEF sent
    <3>3. \A d \in Calls : Awaits(d)
      BY <1>0, <3>1, <3>2 DEF Awaits
    <3>. QED BY <1>2, <3>2, <3>3 DEF Asks
  <2>. QED BY <1>3, <2>1, <2>2, <2>3 DEF UserStep
<1>4. ASSUME NEW j \in Keys, FetchStep(j) \/ Retry(j) \/ Collect(j)
      PROVE  BehindOK'
  <2>1. CASE Retry(j)
    BY <1>2, <2>1 DEF Asks, Retry, Awaits
  <2>. QED BY <1>4, <2>1, FetchBehind DEF BehindOK
<1>5. ASSUME NEW c \in Calls, CallStep(c)
      PROVE  BehindOK'
  <2>1. ASSUME NEW done, done.pc # "refresh", call' = [call EXCEPT ![c] = done],
               UNCHANGED <<cache, screen, raced>>, dialog' = dialog \/ dialog'.sent = None
        PROVE  BehindOK'
    <3>1. dialog' = dialog => \A d \in Calls : Awaits(d)
      BY <1>0, <2>1 DEF Awaits
    <3>. QED BY <1>1, <1>2, <2>1, <3>1 DEF Asks
  <2>2. CASE Apply(c)
    <3>. DEFINE applied == [call[c] EXCEPT !.pc = "applied", !.version = made + 1]
    <3>1. applied.pc = "applied"
      BY <1>0 DEF Call
    <3>2. call' = [call EXCEPT ![c] = applied] /\ UNCHANGED <<cache, screen, raced, dialog>>
      BY <2>2 DEF Apply
    <3>. HIDE DEF applied
    <3>. QED BY <2>1, <3>1, <3>2
  <2>3. CASE Reject(c)
    BY <1>0, <2>1, <2>3, NoCallTyped DEF Reject
  <2>4. CASE Confirm(c)
    BY <2>4, AskForBehind DEF Confirm, Asks, Closes
  <2>5. CASE Continue(c)
    <3>1. call[c].step + 1 \in Nat
      BY <1>0 DEF Call
    <3>2. CASE AskFor(c, call[c].step + 1) /\ UNCHANGED dialog
      BY <2>5, <3>1, <3>2, AskForBehind DEF Continue, Asks
    <3>3. CASE Closes(c) /\ call' = [call EXCEPT ![c] = NoCall] /\ UNCHANGED cache
      <4>1. dialog' = dialog \/ dialog' = NoDialog
        BY <3>3 DEF Closes
      <4>2. NoDialog.sent = None
        BY DEF NoDialog
      <4>3. UNCHANGED <<cache, screen, raced>>
        BY <2>5, <3>3 DEF Continue
      <4>. QED BY <2>1, <3>3, <4>1, <4>2, <4>3, NoCallTyped
    <3>. QED BY <2>5, <3>2, <3>3 DEF Continue
  <2>. QED BY <1>5, <2>2, <2>3, <2>4, <2>5 DEF CallStep
<1>6. CASE UNCHANGED vars
  <2>1. \A c \in Calls : Awaits(c)
    BY <1>6 DEF Awaits, vars
  <2>. QED BY <1>2, <1>6, <2>1 DEF Asks, vars, screen
<1>. QED BY <1>3, <1>4, <1>5, <1>6 DEF Next

(* A change that waits for lists goes on, or is sent by a step that closes nothing, unless
   it is the one that is through or the app is loaded again. *)
LEMMA OthersWait ==
  ASSUME Good, [Next]_vars, NEW c \in Calls, call[c].pc = "refresh",
         ~Continue(c), ~Reload
  PROVE  call'[c].pc = "refresh"
<1>. USE DEF Good
<1>0. call \in [Calls -> Call]
  BY DEF TypeOK
<1>1. CASE call' = call
  BY <1>1
<1>2. ASSUME NEW d \in Calls, d # c, NEW now, call' = [call EXCEPT ![d] = now]
      PROVE  call'[c].pc = "refresh"
  BY <1>0, <1>2
<1>3. ASSUME NEW d \in Calls, d # c, NEW step \in Nat, AskFor(d, step)
      PROVE  call'[c].pc = "refresh"
  BY <1>3, AskForCalls DEF Lighter
<1>4. CASE Leave
  BY <1>4, LeaveLightens DEF Lighter
<1>5. ASSUME NEW keys, call' = Missed(keys) \/ call' = Released(keys)
      PROVE  call'[c].pc = "refresh"
  BY <1>5, MissedLightens, ReleasedLightens DEF Lighter
<1>6. CASE UserStep
  <2>1. ASSUME NEW d \in Calls, NEW ch \in Changes, Submit(d, ch)
        PROVE  call'[c].pc = "refresh"
    BY <1>2, <2>1 DEF Submit
  <2>2. CASE Refetch
    BY <1>5, <2>2 DEF Refetch
  <2>. QED
    BY <1>1, <1>4, <1>6, <2>1, <2>2
    DEF UserStep, SignIn, Visit, SignOut, Open, Browse, OpenDialog, CloseDialog
<1>7. ASSUME NEW j \in Keys, FetchStep(j) \/ Retry(j) \/ Collect(j)
      PROVE  call'[c].pc = "refresh"
  BY <1>1, <1>5, <1>7 DEF FetchStep, ReadList, Answer, Fail, Retry, Collect
<1>8. ASSUME NEW d \in Calls, CallStep(d)
      PROVE  call'[c].pc = "refresh"
  <2>1. CASE Apply(d)
    <3>1. d # c
      BY <2>1 DEF Apply
    <3>. DEFINE now == [call[d] EXCEPT !.pc = "applied", !.version = made + 1]
    <3>2. call' = [call EXCEPT ![d] = now]
      BY <2>1 DEF Apply
    <3>. HIDE DEF now
    <3>. QED BY <1>2, <3>1, <3>2
  <2>2. CASE Reject(d)
    BY <1>2, <2>2 DEF Reject
  <2>3. CASE Confirm(d)
    BY <1>3, <2>3 DEF Confirm
  <2>4. CASE Continue(d)
    <3>1. d # c /\ call[d].step + 1 \in Nat
      BY <1>0, <2>4 DEF Call
    <3>. QED BY <1>2, <1>3, <2>4, <3>1 DEF Continue
  <2>. QED BY <1>8, <2>1, <2>2, <2>3, <2>4 DEF CallStep
<1>9. CASE UNCHANGED vars
  BY <1>1, <1>9 DEF vars
<1>. QED BY <1>6, <1>7, <1>8, <1>9 DEF Next

\* The dialog of c closes, and c is through.
ClosedSaved(c) ==
  call[c].pc = "refresh" /\ dialog.sent = c /\ dialog' = NoDialog
    /\ call'[c].pc = "idle" /\ UNCHANGED cache

LEMMA ClosesShown ==
  ASSUME Good, BehindOK, [Next]_vars, NEW c \in Calls, ClosedSaved(c), ~call[c].cut,
         NEW k \in Mounted \ raced, k[1] \in KeptUpWith(call[c].change),
         cache[k].data # None
  PROVE  cache[k].data.version >= call[c].version
<1>1. k \in Keys
  BY MountedKeys DEF Good
<1>2. CASE Reload
  <2>1. cache'[k] \in {NoEntry, [NoEntry EXCEPT !.fetch = Fetch(account)]}
    BY <1>1, <1>2 DEF Reload
  <2>2. cache'[k].data = None
    BY <2>1 DEF NoEntry
  <2>. QED BY <2>2 DEF ClosedSaved
<1>3. CASE Continue(c)
  <2>1. call[c].waits = {}
    BY <1>3 DEF Continue, CaughtUp
  <2>2. Behind(c, k)
    BY <1>1 DEF BehindOK
  <2>. QED BY <2>1, <2>2 DEF Behind, ClosedSaved
<1>. QED BY <1>2, <1>3, OthersWait DEF ClosedSaved

-----------------------------------------------------------------------------
(* The theorems *)

LEMMA FirstState ==
  ASSUME Init
  PROVE  CurrentOK /\ BehindOK
<1>1. \A k \in Keys : cache[k].data = None /\ cache[k].fetch = None
  BY DEF Init, NoEntry
<1>2. \A c \in Calls : call[c].pc = "idle"
  BY NoCallTyped DEF Init
<1>. QED BY <1>1, <1>2 DEF CurrentOK, Current, BehindOK, Behind

(* Every page shows queries of the app, every query of lib/queryClient.ts holds an answer
   and a request of accounts that signed in, and every mutation waits for queries. *)
THEOREM TypeCorrect == Spec => []TypeOK
<1>1. Good => TypeOK
  BY DEF Good
<1>. QED BY <1>1, AlwaysGood, PTL

(* After "Client updated" no list that is kept up with such a change and passes for current
   is older than it, unless the invalidation of its query joined a first request that the
   API had read already; what the pages never ask for again is not claimed. *)
THEOREM OwnChangesStay == Spec => []OwnChangesKept
<1>1. Init => CurrentOK
  BY FirstState
<1>2. Good /\ CurrentOK /\ [Next]_vars => CurrentOK'
  BY CurrentStep
<1>3. CurrentOK => OwnChangesKept
  BY DEF CurrentOK, Current, OwnChangesKept
<1>. QED BY <1>1, <1>2, <1>3, AlwaysGood, PTL DEF Spec

(* When UserRolesDialog or InviteUserDialog closes on a save, the lists behind it have the
   change, but for those the property names. *)
THEOREM ShownBehindDialog == Spec => ShownOnClose
<1>1. Init => BehindOK
  BY FirstState
<1>2. Good /\ BehindOK /\ [Next]_vars => BehindOK'
  BY BehindStep
<1>3. Good /\ BehindOK /\ [Next]_vars =>
        \A c \in Calls : ClosedSaved(c) =>
          \/ call[c].cut
          \/ \A k \in Mounted \ raced :
               (k[1] \in KeptUpWith(call[c].change) /\ cache[k].data # None) =>
                 cache[k].data.version >= call[c].version
  BY ClosesShown
<1>4. Good /\ BehindOK /\ [Next]_vars =>
        [\A c \in Calls :
           (call[c].pc = "refresh" /\ dialog.sent = c /\ dialog' = NoDialog
              /\ call'[c].pc = "idle" /\ UNCHANGED cache) =>
             \/ call[c].cut
             \/ \A k \in Mounted \ raced :
                  (k[1] \in KeptUpWith(call[c].change) /\ cache[k].data # None) =>
                    cache[k].data.version >= call[c].version]_vars
  BY <1>3 DEF ClosedSaved
<1>. QED BY <1>1, <1>2, <1>4, AlwaysGood, PTL DEF Spec, ShownOnClose

=============================================================================
