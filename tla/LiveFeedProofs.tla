--------------------------- MODULE LiveFeedProofs ---------------------------
(***************************************************************************)
(* Proofs about the way of a signal to the teacher's page, for every set   *)
(* of sessions and scheduler processes and every number of failures.       *)
(***************************************************************************)
EXTENDS LiveFeed, TLAPS

-----------------------------------------------------------------------------
(* The inductive invariant.                                                *)

FeedTypeOK ==
    /\ listener \in {"off", "connecting", "listening"}
    /\ socket \in {"none", "accepted", "registered", "subscribed"}
    /\ page \in {"connecting", "opened", "live", "waiting", "refreshing", "auth"}
    /\ toServer \in Seq({"auth", "subscribe"})
    /\ toPage \in Seq({"authenticated", "signal.created"})
    /\ fetch.at \in {"none", "asked", "read"}

\* A page is live, and a message is on its way to it, only over a socket that has
\* authenticated: every end of a socket empties it and takes the page out of live.
LiveOverSocket ==
    page = "live" \/ toPage # <<>> => socket \in {"registered", "subscribed"}

\* What the page shows, or will when the answer it waits for arrives.
ToBeShown == IF fetch.at = "read" THEN fetch.rows ELSE shown

\* A signal that a live page does not show has something on its way that makes the page
\* ask again: it is with the listener, or any message or a request is under way.
NothingForgotten ==
    \/ page # "live"
    \/ toPage # <<>>
    \/ fetch.at = "asked"
    \/ signals \subseteq ToBeShown \union inbox \union unheard

IInv == FeedTypeOK /\ LiveOverSocket /\ NothingForgotten

-----------------------------------------------------------------------------
LEMMA InitIInv == FeedInit => IInv
BY DEF FeedInit, Init, Start, IInv, FeedTypeOK, LiveOverSocket, NothingForgotten, Asked

\* A step of the students or of a scheduler touches the feed by its notification only.
LEMMA NotifyIInv ==
  ASSUME IInv, Notify(signals' \ signals)
  PROVE  IInv'
<1>1. FeedTypeOK' /\ LiveOverSocket'
  BY DEF IInv, FeedTypeOK, LiveOverSocket, Notify
<1>2. NothingForgotten'
  <2>1. inbox \union unheard \union (signals' \ signals) \subseteq inbox' \union unheard'
    BY DEF Notify
  <2>2. CASE signals \subseteq ToBeShown \union inbox \union unheard
    <3>1. ToBeShown' = ToBeShown
      BY DEF Notify, ToBeShown
    <3> QED BY <2>1, <2>2, <3>1 DEF NothingForgotten
  <2> QED BY <2>2 DEF IInv, NothingForgotten, Notify
<1> QED BY <1>1, <1>2 DEF IInv

\* Every message that the page handles makes it ask again.
LEMMA MessageIInv ==
  ASSUME IInv, signals' = signals, OnAuthenticated \/ OnNotification
  PROVE  IInv'
<1>1. toPage # <<>> /\ toPage' = Tail(toPage) /\ fetch' = Asked /\ socket' = socket
      /\ listener' = listener
  BY DEF OnAuthenticated, OnNotification, Invalidate
<1>2. toPage' \in Seq({"authenticated", "signal.created"})
  BY <1>1 DEF IInv, FeedTypeOK
<1>3. page' \in {page, "live"} /\ toServer' \in {toServer, Append(toServer, "subscribe")}
  BY DEF OnAuthenticated, OnNotification
<1>4. FeedTypeOK'
  <2>1. toServer' \in Seq({"auth", "subscribe"})
    BY <1>3 DEF IInv, FeedTypeOK
  <2> QED BY <1>1, <1>2, <1>3, <2>1 DEF IInv, FeedTypeOK, Asked
<1>5. LiveOverSocket'
  BY <1>1 DEF IInv, LiveOverSocket
<1>6. NothingForgotten'
  BY <1>1 DEF NothingForgotten, Asked
<1> QED BY <1>4, <1>5, <1>6 DEF IInv

\* The hub: a signal leaves the inbox for the socket, or is noted as unheard, unless the
\* page is about to connect and will ask then.
LEMMA HandleIInv ==
  ASSUME IInv, signals' = signals, Handle
  PROVE  IInv'
<1>1. PICK x \in inbox : /\ inbox' = inbox \ {x}
                         /\ toPage' = IF Visible THEN Sent("signal.created") ELSE toPage
                         /\ unheard' = IF socket = "registered" THEN unheard \union {x} ELSE unheard
                         /\ UNCHANGED <<listener, socket, toServer, page, fetch, shown, drops>>
  BY DEF Handle
<1>2. toPage' \in Seq({"authenticated", "signal.created"}) /\ (Visible => toPage' # <<>>)
  BY <1>1 DEF IInv, FeedTypeOK, Sent
<1>3. FeedTypeOK'
  BY <1>1, <1>2 DEF IInv, FeedTypeOK
<1>4. LiveOverSocket'
  BY <1>1 DEF IInv, LiveOverSocket, Visible
<1>5. NothingForgotten'
  <2>1. CASE Visible
    BY <1>2, <2>1 DEF NothingForgotten
  <2>2. CASE socket = "registered"
    BY <1>1, <2>2 DEF IInv, NothingForgotten, ToBeShown, Visible
  <2>3. CASE socket \notin {"registered", "subscribed"}
    BY <1>1, <2>3 DEF IInv, LiveOverSocket, NothingForgotten
  <2> QED BY <2>1, <2>2, <2>3 DEF Visible
<1> QED BY <1>3, <1>4, <1>5 DEF IInv

LEMMA ListenerIInv ==
  ASSUME IInv, signals' = signals, Listen \/ ListenerFails
  PROVE  IInv'
<1>1. FeedTypeOK' /\ LiveOverSocket'
  BY DEF IInv, FeedTypeOK, LiveOverSocket, Listen, ListenerFails
<1>2. ToBeShown' = ToBeShown /\ inbox' \union unheard' = inbox \union unheard
  BY DEF ToBeShown, Listen, ListenerFails
<1>3. NothingForgotten'
  BY <1>2 DEF IInv, NothingForgotten, Listen, ListenerFails
<1> QED BY <1>1, <1>3 DEF IInv

LEMMA EndpointIInv ==
  ASSUME IInv, signals' = signals, Authenticate \/ Subscribe
  PROVE  IInv'
<1>1. /\ toServer # <<>> /\ toServer' = Tail(toServer)
      /\ toPage' = toPage \/ toPage' = Append(toPage, "authenticated")
      /\ socket' \in {"registered", "subscribed"}
      /\ listener' \in {listener, "connecting"}
      /\ UNCHANGED <<inbox, page, fetch, shown, unheard>>
  BY DEF Authenticate, Subscribe, EnsureListener, Sent
<1>2. toServer' \in Seq({"auth", "subscribe"})
  BY <1>1 DEF IInv, FeedTypeOK
<1>3. toPage' \in Seq({"authenticated", "signal.created"}) /\ (toPage # <<>> => toPage' # <<>>)
  BY <1>1 DEF IInv, FeedTypeOK
<1>4. FeedTypeOK' /\ LiveOverSocket'
  BY <1>1, <1>2, <1>3 DEF IInv, FeedTypeOK, LiveOverSocket
<1>5. NothingForgotten'
  BY <1>1, <1>3 DEF IInv, NothingForgotten, ToBeShown
<1> QED BY <1>4, <1>5 DEF IInv

\* A socket ends or begins: the page is not live.
LEMMA SocketIInv ==
  ASSUME IInv, signals' = signals, Connect \/ RefuseToken \/ Drop \/ Retry \/ Refreshed
  PROVE  IInv'
<1>1. /\ page' \in {"connecting", "opened", "waiting", "refreshing", "auth"}
      /\ socket' \in {"none", "accepted", socket}
      /\ toPage' = <<>> \/ (toPage' = toPage /\ socket' = socket)
      /\ toServer' \in {<<>>, <<"auth">>, toServer}
      /\ UNCHANGED <<listener, fetch>>
  BY DEF Connect, RefuseToken, Drop, Retry, Refreshed
<1>2. <<>> \in Seq({"authenticated", "signal.created"}) /\ <<>> \in Seq({"auth", "subscribe"})
      /\ <<"auth">> \in Seq({"auth", "subscribe"})
  OBVIOUS
<1> QED BY <1>1, <1>2 DEF IInv, FeedTypeOK, LiveOverSocket, NothingForgotten

\* The list is read, and shown: what is read is all there is.
LEMMA ListIInv ==
  ASSUME IInv, signals' = signals, ServeList \/ ShowList
  PROVE  IInv'
<1>1. CASE ServeList
  BY <1>1 DEF IInv, FeedTypeOK, LiveOverSocket, NothingForgotten, ToBeShown, ServeList, Read
<1>2. CASE ShowList
  BY <1>2 DEF IInv, FeedTypeOK, LiveOverSocket, NothingForgotten, ToBeShown, ShowList, None
<1> QED BY <1>1, <1>2

LEMMA StepIInv == IInv /\ [FeedNext]_allVars => IInv'
<1> SUFFICES ASSUME IInv, [FeedNext]_allVars PROVE IInv'
  OBVIOUS
<1>1. CASE Notify(signals' \ signals)
  BY <1>1, NotifyIInv
<1>2. CASE (FeedStep \/ ListenerFails \/ RefuseToken \/ Drop) /\ UNCHANGED vars
  <2>1. signals' = signals
    BY <1>2 DEF vars
  <2> QED
    BY <1>2, <2>1, MessageIInv, HandleIInv, ListenerIInv, EndpointIInv, SocketIInv, ListIInv
    DEF FeedStep
<1>3. CASE UNCHANGED allVars
  BY <1>3 DEF allVars, vars, feedVars, IInv, FeedTypeOK, LiveOverSocket, NothingForgotten,
     ToBeShown
<1> QED BY <1>1, <1>2, <1>3 DEF FeedNext

LEMMA Invariance == FeedSpec => []IInv
BY InitIInv, StepIInv, PTL DEF FeedSpec

-----------------------------------------------------------------------------
(* Theorems.                                                               *)

\* When nothing is under way, a live page shows every signal but those that the two holes
\* of the feed swallowed: whatever dropped and reconnected, nothing else is lost.
THEOREM QuietIsFresh == FeedSpec => []QuietPageIsFresh
<1>1. IInv => QuietPageIsFresh
  BY DEF IInv, NothingForgotten, ToBeShown, QuietPageIsFresh, Quiet, None
<1> QED BY <1>1, Invariance, PTL
=============================================================================
