------------------------------ MODULE GitHubLink ------------------------------
(***************************************************************************)
(* The GitHub account that a seller shows to buyers: one row per seller in *)
(* the auth service, written by the callbacks of GitHub's OAuth and        *)
(* deleted by disconnect, each with a notification in the same commit.     *)
(*                                                                         *)
(* Handlers run on threads with a session each.  A callback calls GitHub   *)
(* twice and loads the row only then; what it commits depends on the row   *)
(* that it has loaded.  The rows of two sellers have nothing in common.    *)
(*                                                                         *)
(* An account stands for its login, its id and its age, which differ where *)
(* accounts do; the count of its public repositories is apart, since it    *)
(* changes and may be the same for two accounts.                           *)
(***************************************************************************)

CONSTANTS
  Request,  \* requests in flight at most
  Account,  \* GitHub accounts
  Count,    \* public_repo_count
  Grant,    \* bound: the authorization codes that GitHub gives out
  Nil

VARIABLES
  connection,  \* the row of seller_github_connections
  notice,      \* the notification about it that was committed last
  invited,     \* some state of an authorize URL has not expired
  given, used, \* GitHub: the account of each code, and the codes exchanged
  request,     \* the requests
  apart        \* history: no two callbacks were between their load and their commit

linkVars == <<connection, notice, invited, given, used, request, apart>>
github == <<given, used>>
stored == <<connection, notice>>

Profile == [account : Account, repos : Count]
Notice == [type : {"none", "github_connected", "github_disconnected"},
           profile : Profile \cup {Nil}]

ASSUME GitHubLinkAssumption == Nil \notin Account \cup Profile

\* A request: the code it was called with, the profile it has, the row it has loaded.
Handler == [pc : {"idle", "exchange", "fetch", "load", "store", "delete"},
            grant : Grant \cup {Nil}, profile : Profile \cup {Nil}, seen : Profile \cup {Nil}]
Free == [pc |-> "idle", grant |-> Nil, profile |-> Nil, seen |-> Nil]

LinkTypeOK ==
  /\ connection \in Profile \cup {Nil} /\ notice \in Notice
  /\ invited \in BOOLEAN /\ apart \in BOOLEAN
  /\ given \in [Grant -> Account \cup {Nil}] /\ used \subseteq Grant
  /\ request \in [Request -> Handler]

LinkInit ==
  /\ connection = Nil
  /\ notice = [type |-> "none", profile |-> Nil]
  /\ invited = FALSE /\ apart = TRUE
  /\ given = [g \in Grant |-> Nil] /\ used = {}
  /\ request = [r \in Request |-> Free]

Set(r, h) == request' = [request EXCEPT ![r] = h]
Over(r) == Set(r, Free)

-----------------------------------------------------------------------------
(* The way to GitHub and back                                              *)

\* get_github_authorize_url signs a state for the seller.
Authorize ==
  /\ ~invited
  /\ invited' = TRUE
  /\ UNCHANGED <<stored, github, request, apart>>

\* STATE_TTL_SECONDS have passed.
StateExpires ==
  /\ invited
  /\ invited' = FALSE
  /\ UNCHANGED <<stored, github, request, apart>>

\* The seller consents, with any account.
Consent(g, a) ==
  /\ given[g] = Nil
  /\ given' = [given EXCEPT ![g] = a]
  /\ UNCHANGED <<stored, invited, used, request, apart>>

\* Of the redirect, which brings no session, the state is verified once, before
\* GitHub is called; the page posts the code with a session and needs no state.  A code
\* may come twice, when a page is loaded again.
Called(r, g) ==
  /\ given[g] # Nil
  /\ Set(r, [Free EXCEPT !.pc = "exchange", !.grant = g])
Redirected(r, g) == invited /\ Called(r, g)
Posted(r, g) == Called(r, g)

Callback(r, g) ==
  /\ request[r] = Free
  /\ Redirected(r, g) \/ Posted(r, g)
  /\ UNCHANGED <<stored, invited, github, apart>>

\* A posted callback may carry a profile, or a code that stands for one.
CallbackWithProfile(r, p) ==
  /\ request[r] = Free
  /\ Set(r, [Free EXCEPT !.pc = "load", !.profile = p])
  /\ UNCHANGED <<stored, invited, github, apart>>

\* GitHub takes a code once.  Its answer may be lost.
Exchange(r) ==
  /\ request[r].pc = "exchange"
  /\ \/ /\ request[r].grant \notin used
        /\ used' = used \cup {request[r].grant}
        /\ Set(r, [request[r] EXCEPT !.pc = "fetch"]) \/ Over(r)
     \/ /\ Over(r)
        /\ UNCHANGED used
  /\ UNCHANGED <<stored, invited, given, apart>>

\* The profile as it is now.  A call that fails and a profile that lacks a field end
\* the request; the token is forgotten either way.
Fetch(r) ==
  /\ request[r].pc = "fetch"
  /\ \/ \E n \in Count :
          Set(r, [request[r] EXCEPT !.pc = "load",
                    !.profile = [account |-> given[request[r].grant], repos |-> n]])
     \/ Over(r)
  /\ UNCHANGED <<stored, invited, github, apart>>

-----------------------------------------------------------------------------
(* The row                                                                 *)

Load(r) ==
  /\ request[r].pc = "load"
  /\ Set(r, [request[r] EXCEPT !.pc = "store", !.seen = connection])
  /\ apart' = (apart /\ \A q \in Request : request[q].pc # "store")
  /\ UNCHANGED <<stored, invited, github>>

\* The session writes the columns that differ from the row it has loaded.  Faulty
\* variant: one column is forgotten.
Updated_partly(h) == [connection EXCEPT !.account = h.profile.account]
Updated(h) ==
  [account |-> IF h.profile.account # h.seen.account THEN h.profile.account ELSE connection.account,
   repos |-> IF h.profile.repos # h.seen.repos THEN h.profile.repos ELSE connection.repos]

\* The row and the notification are committed together.  The flush of an insert
\* fails if there is a row by then, and of an update if there is none (connected_at
\* always differs, so that an update is always written); or the request just fails.
Store(r) ==
  LET h == request[r] IN
  /\ h.pc = "store"
  /\ \/ /\ (h.seen = Nil) <=> (connection = Nil)
        /\ connection' = IF h.seen = Nil THEN h.profile ELSE Updated(h)
        /\ notice' = [type |-> "github_connected", profile |-> h.profile]
     \/ UNCHANGED stored
  /\ Over(r)
  /\ UNCHANGED <<invited, github, apart>>

\* disconnect_github_account.
Disconnect(r) ==
  /\ request[r] = Free /\ connection # Nil
  /\ Set(r, [Free EXCEPT !.pc = "delete", !.seen = connection])
  /\ UNCHANGED <<stored, invited, github, apart>>

\* The row is deleted by its key, whatever has become of it; one that is gone already
\* is a warning.  Faulty variant: only the row that was loaded.
Deleted_seen(h) == IF connection = h.seen THEN Nil ELSE connection
Deleted(h) == Nil

Delete(r) ==
  /\ request[r].pc = "delete"
  /\ \/ /\ connection' = Deleted(request[r])
        /\ notice' = [type |-> "github_disconnected", profile |-> Nil]
     \/ UNCHANGED stored
  /\ Over(r)
  /\ UNCHANGED <<invited, github, apart>>

-----------------------------------------------------------------------------
LinkNext ==
  \/ Authorize \/ StateExpires
  \/ \E g \in Grant, a \in Account : Consent(g, a)
  \/ \E r \in Request :
       \/ \E g \in Grant : Callback(r, g)
       \/ \E p \in Profile : CallbackWithProfile(r, p)
       \/ Exchange(r) \/ Fetch(r) \/ Load(r) \/ Store(r) \/ Disconnect(r) \/ Delete(r)

LinkSpec == LinkInit /\ [][LinkNext]_linkVars

-----------------------------------------------------------------------------
(* Properties                                                              *)

\* What the seller's status and the public trust badge show.
Shown == connection

\* What the seller was told last is the case: a connection is shown if and only if
\* the last notification says that GitHub was connected, however callbacks and
\* disconnects overlap, repeat and fail.
NoticeAgrees == notice.type = "github_connected" <=> Shown # Nil

\* The badge shows the profile that the seller was told of, all of it, and not the
\* account of one callback with the repositories of another: unless two callbacks
\* overlapped between load and commit.
ShownIsTold == apart /\ Shown # Nil => Shown = notice.profile
=============================================================================
