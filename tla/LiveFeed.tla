------------------------------ MODULE LiveFeed ------------------------------
(***************************************************************************)
(* From a committed signal to the teacher's page.  The insert of a signal  *)
(* notifies the hub's listener at commit; the hub pushes the identifier to *)
(* the socket of a teacher who subscribed to the class; the page then asks *)
(* for the list again over REST.  One page of one teacher watches the class*)
(* of all sessions; its socket may drop at any time, its access token may  *)
(* be refused, and the listener's database connection may fail.            *)
(***************************************************************************)
EXTENDS SignalOutbox, Sequences

CONSTANT MaxDrops    (* bound: failures of a connection and refused tokens  *)

VARIABLES
    listener,  (* the hub's listener thread: off, connecting or listening  *)
    inbox,     (* signals notified to the listener, not handled yet        *)
    socket,    (* the server's side of the page's socket                   *)
    toServer,  (* messages on the socket, in order                         *)
    toPage,
    page,      (* the socket's state in the page (TeacherSocket)           *)
    fetch,     (* the page's list request: none, asked, or the rows read   *)
    shown,     (* the signals the page shows                               *)
    unheard,   (* signals that reached no subscribed socket since the last *)
               (* read, with the listener down or the socket not           *)
               (* subscribed yet (history)                                 *)
    drops

feedVars == <<listener, inbox, socket, toServer, toPage, page, fetch, shown, unheard, drops>>

None == [rows |-> {}, at |-> "none"]
Asked == [rows |-> {}, at |-> "asked"]
Read(X) == [rows |-> X, at |-> "read"]

FeedInit ==
    /\ Init
    /\ listener = "off"
    /\ inbox = {}
    /\ socket = "none"
    /\ toServer = <<>>
    /\ toPage = <<>>
    /\ page = "connecting"
    /\ fetch = Asked
    /\ shown = {}
    /\ unheard = {}
    /\ drops = 0

-----------------------------------------------------------------------------
(* The hub                                                                 *)

\* PostgreSQL delivers at commit to those that listen at that moment.
Notify(X) ==
    /\ inbox' = IF listener = "listening" THEN inbox \union X ELSE inbox
    /\ unheard' = IF listener = "listening" THEN unheard ELSE unheard \union X
    /\ UNCHANGED <<listener, socket, toServer, toPage, page, fetch, shown, drops>>

\* LISTEN: the thread that the first subscriber started, or one that reconnects.
Listen ==
    /\ listener = "connecting"
    /\ listener' = "listening"
    /\ UNCHANGED <<inbox, socket, toServer, toPage, page, fetch, shown, unheard, drops>>

\* The listener's connection fails: what it had received is gone, and so is what is
\* notified until it listens again.
ListenerFails ==
    /\ listener = "listening"
    /\ drops < MaxDrops
    /\ drops' = drops + 1
    /\ listener' = "connecting"
    /\ inbox' = {}
    /\ unheard' = unheard \union inbox
    /\ UNCHANGED <<socket, toServer, toPage, page, fetch, shown>>

\* _visible: the socket has subscribed to the class, in which the session is visible.
Visible == socket = "subscribed"

\* threadsafe_sender: messages reach the socket in the order they are handed over.
Sent(m) == Append(toPage, m)

\* _handle: the identifier goes to the sockets that may see it.
Handle ==
    \E x \in inbox :
        /\ inbox' = inbox \ {x}
        /\ toPage' = IF Visible THEN Sent("signal.created") ELSE toPage
        /\ unheard' = IF socket = "registered" THEN unheard \union {x} ELSE unheard
        /\ UNCHANGED <<listener, socket, toServer, page, fetch, shown, drops>>

-----------------------------------------------------------------------------
(* The WebSocket endpoint                                                  *)

\* ensure_listener, which the first subscriber of the process calls.
EnsureListener == listener' = IF listener = "off" THEN "connecting" ELSE listener

\* The first message: a good token registers the socket and starts the listener,
\* which nobody waits for; a bad one closes the socket with 4401.
Authenticate ==
    /\ socket = "accepted"
    /\ toServer # <<>>
    /\ toServer' = Tail(toServer)
    /\ socket' = "registered"
    /\ EnsureListener
    /\ toPage' = Sent("authenticated")
    /\ UNCHANGED <<inbox, page, fetch, shown, unheard, drops>>

RefuseToken ==
    /\ socket = "accepted"
    /\ toServer # <<>>
    /\ drops < MaxDrops
    /\ drops' = drops + 1
    /\ socket' = "none"
    /\ toServer' = <<>>
    /\ toPage' = <<>>
    /\ page' = "refreshing"
    /\ UNCHANGED <<listener, inbox, fetch, shown, unheard>>

Subscribe ==
    /\ socket = "registered"
    /\ toServer # <<>>
    /\ toServer' = Tail(toServer)
    /\ socket' = "subscribed"
    /\ UNCHANGED <<listener, inbox, toPage, page, fetch, shown, unheard, drops>>

-----------------------------------------------------------------------------
(* The page                                                                *)

\* connect, and the token once the socket is open.
Connect ==
    /\ page = "connecting"
    /\ page' = "opened"
    /\ socket' = "accepted"
    /\ toServer' = <<"auth">>
    /\ toPage' = <<>>
    /\ UNCHANGED <<listener, inbox, fetch, shown, unheard, drops>>

\* The queries are invalidated: a request under way is dropped for a new one.
Invalidate == fetch' = Asked

\* Mutant of OnAuthenticated: only the first connection loads the list.
OnAuthenticatedNoResync ==
    /\ toPage # <<>>
    /\ Head(toPage) = "authenticated"
    /\ toPage' = Tail(toPage)
    /\ page' = "live"
    /\ toServer' = Append(toServer, "subscribe")
    /\ UNCHANGED <<listener, inbox, socket, fetch, shown, unheard, drops>>

\* "authenticated": the subscription is sent, and onResync asks for everything.
OnAuthenticated ==
    /\ toPage # <<>>
    /\ Head(toPage) = "authenticated"
    /\ toPage' = Tail(toPage)
    /\ page' = "live"
    /\ toServer' = Append(toServer, "subscribe")
    /\ Invalidate
    /\ UNCHANGED <<listener, inbox, socket, shown, unheard, drops>>

\* Mutant of OnNotification: the notification is remembered, nothing is asked for.
OnNotificationRemembers ==
    /\ toPage # <<>>
    /\ Head(toPage) = "signal.created"
    /\ toPage' = Tail(toPage)
    /\ UNCHANGED <<listener, inbox, socket, toServer, page, fetch, shown, unheard, drops>>

\* A notification only names what changed: the attention list is asked for again.
OnNotification ==
    /\ toPage # <<>>
    /\ Head(toPage) = "signal.created"
    /\ toPage' = Tail(toPage)
    /\ Invalidate
    /\ UNCHANGED <<listener, inbox, socket, toServer, page, shown, unheard, drops>>

\* The socket drops; both sides notice, and the messages on it are lost.
Drop ==
    /\ socket # "none"
    /\ drops < MaxDrops
    /\ drops' = drops + 1
    /\ socket' = "none"
    /\ toServer' = <<>>
    /\ toPage' = <<>>
    /\ page' = "waiting"
    /\ UNCHANGED <<listener, inbox, fetch, shown, unheard>>

Retry ==
    /\ page = "waiting"
    /\ page' = "connecting"
    /\ UNCHANGED <<listener, inbox, socket, toServer, toPage, fetch, shown, unheard, drops>>

\* After 4401 a new token: it connects again at once, waits when the network failed,
\* and gives up when the login is over.
Refreshed ==
    /\ page = "refreshing"
    /\ page' \in {"connecting", "waiting", "auth"}
    /\ UNCHANGED <<listener, inbox, socket, toServer, toPage, fetch, shown, unheard, drops>>

\* The list endpoint reads the committed signals; the answer arrives later.
ServeList ==
    /\ fetch = Asked
    /\ fetch' = Read(signals)
    /\ unheard' = {}
    /\ UNCHANGED <<listener, inbox, socket, toServer, toPage, page, shown, drops>>

ShowList ==
    /\ fetch.at = "read"
    /\ shown' = fetch.rows
    /\ fetch' = None
    /\ UNCHANGED <<listener, inbox, socket, toServer, toPage, page, unheard, drops>>

-----------------------------------------------------------------------------

FeedStep ==
    \/ Listen \/ Handle \/ Authenticate \/ Subscribe
    \/ Connect \/ OnAuthenticated \/ OnNotification \/ Retry \/ Refreshed
    \/ ServeList \/ ShowList

FeedNext ==
    \/ Next /\ Notify(signals' \ signals)
    \/ (FeedStep \/ ListenerFails \/ RefuseToken \/ Drop) /\ UNCHANGED vars

allVars == <<vars, feedVars>>

FeedSpec == FeedInit /\ [][FeedNext]_allVars

\* The scheduler's loop, the hub, the endpoints and the page all go on.
FairFeedSpec ==
    /\ FeedSpec
    /\ \A w \in Schedulers :
         WF_allVars((RunScheduler(w) \/ PassOver(w)) /\ Notify(signals' \ signals))
    /\ WF_allVars(Listen /\ UNCHANGED vars)
    /\ WF_allVars(Handle /\ UNCHANGED vars)
    /\ WF_allVars((Authenticate \/ Subscribe) /\ UNCHANGED vars)
    /\ WF_allVars((Connect \/ OnAuthenticated \/ OnNotification \/ Retry \/ Refreshed)
                    /\ UNCHANGED vars)
    /\ WF_allVars(ServeList /\ UNCHANGED vars)
    /\ WF_allVars(ShowList /\ UNCHANGED vars)

-----------------------------------------------------------------------------
(* Properties                                                              *)

\* Nothing is under way between the hub and a page that is live.
Quiet ==
    /\ page = "live" /\ socket = "subscribed"
    /\ inbox = {} /\ toPage = <<>> /\ fetch = None

\* When all is quiet a live page shows every signal, however often its socket dropped
\* and whatever was lost with it (NFR-REALTIME-003), but for those committed after its
\* last read while the listener was down or its subscription was still on the way.
QuietPageIsFresh == Quiet => signals \subseteq shown \union unheard

\* Every idle gap that is closed reaches the page of a teacher who stays logged in:
\* the key of its first window is shown, unless a signal remains in one of the two
\* holes for good, for nothing else makes the page ask again.
GapShown(s, n) ==
    n \in Numbers(s) => \A x \in ClosedGap(s, n) : Key(x) \in Keys(shown)
GapReachesPage ==
    \A s \in Sessions : \A n \in 1 .. MaxSeq[s] :
        (n \in Numbers(s) /\ n <= Highest(s) /\ EventOf(s, n).kind # "other")
            ~> (page = "auth" \/ [](unheard # {}) \/ GapShown(s, n))
=============================================================================
