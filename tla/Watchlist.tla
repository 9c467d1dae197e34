----------------------------- MODULE Watchlist -----------------------------
(***************************************************************************)
(* One user's watchlist: the handlers of GET, PUT and DELETE, which run    *)
(* side by side, and a tab of the dashboard (WatchlistProvider), which     *)
(* replaces what it shows by each list it is answered, in the order the    *)
(* answers arrive.                                                         *)
(***************************************************************************)
EXTENDS Naturals, FiniteSets

CONSTANTS
  Stocks,
  Quoted,      \* the symbols that have rows in the last LOOKUP_SESSIONS
  Requests,    \* bound: the requests of the tab that are under way at a time
  MaxItems,    \* settings.watchlist_max_items
  MaxErrors,   \* bound: requests that end in an unexpected error
  NoRequest

ASSUME WatchAssumption == /\ Quoted \subseteq Stocks /\ IsFiniteSet(Stocks)
                          /\ MaxItems \in Nat \ {0} /\ MaxErrors \in Nat
                          /\ NoRequest \notin Requests \cup Stocks

VARIABLES
  items,       \* watchlist_items of the user
  lock,        \* the holder of the advisory lock of the user
  wanted,      \* the symbols request_symbol_sync was called for
  request,     \* each request of the tab and where its handler is
  stars,       \* state.data of the tab
  unqueued,    \* history: added, but request_symbol_sync raised
  overlapped,  \* history: two requests of the tab were under way at once
  missed,      \* history: an answer was an error since the last list
  errors       \* unexpected errors so far

server == <<items, lock, wanted, unqueued>>
tab    == <<stars, overlapped, missed>>
watchVars == <<server, request, tab, errors>>

NotSent == [at |-> "none", symbol |-> NoRequest, list |-> {}]
UnderWay(r) == request[r].at # "none"

Handling == {"lookup", "lock", "exists", "count", "insert", "queue", "delete"}

WatchTypeOK ==
  /\ items \subseteq Stocks /\ wanted \subseteq Stocks /\ stars \subseteq Stocks
  /\ unqueued \subseteq Stocks /\ overlapped \in BOOLEAN /\ missed \in BOOLEAN
  /\ lock \in Requests \cup {NoRequest} /\ errors \in 0 .. MaxErrors
  /\ request \in [Requests -> [at : Handling \cup {"none", "list", "answer", "error"},
                               symbol : Stocks \cup {NoRequest}, list : SUBSET Stocks]]
  /\ \A r \in Requests : request[r].at \in Handling => request[r].symbol \in Stocks

WatchInit ==
  /\ items = {} /\ lock = NoRequest /\ wanted = {} /\ stars = {}
  /\ request = [r \in Requests |-> NotSent]
  /\ unqueued = {} /\ overlapped = FALSE /\ missed = FALSE /\ errors = 0

-----------------------------------------------------------------------------
(* The tab.  A star is off while a request for its symbol is under way;    *)
(* two reloads cannot be, as the second aborts the first.                  *)
Send(r) ==
  /\ ~UnderWay(r)
  /\ \E s \in Stocks, op \in {"lookup", "delete"} :
       /\ \A o \in Requests : UnderWay(o) => request[o].symbol # s
       /\ op = "lookup" <=> s \notin stars
       /\ request' = [request EXCEPT ![r] = [at |-> op, symbol |-> s, list |-> {}]]
  /\ overlapped' = (overlapped \/ \E o \in Requests : UnderWay(o))
  /\ UNCHANGED <<server, stars, missed, errors>>

Refresh(r) ==
  /\ ~UnderWay(r)
  /\ request' = [o \in Requests |->
       IF o = r THEN [at |-> "list", symbol |-> NoRequest, list |-> {}]
       ELSE IF UnderWay(o) /\ request[o].symbol = NoRequest THEN NotSent
       ELSE request[o]]
  /\ overlapped' = (overlapped \/ \E o \in Requests : UnderWay(o))
  /\ UNCHANGED <<server, stars, missed, errors>>

(* The list of an answer replaces the one shown; an error leaves it.       *)
Deliver(r) ==
  /\ request[r].at \in {"answer", "error"}
  /\ stars' = IF request[r].at = "answer" THEN request[r].list ELSE stars
  /\ missed' = (request[r].at = "error")
  /\ request' = [request EXCEPT ![r] = NotSent]
  /\ UNCHANGED <<server, overlapped, errors>>

-----------------------------------------------------------------------------
(* The handlers.                                                           *)
Goes(r, from, to) == request[r].at = from /\ request' = [request EXCEPT ![r].at = to]

(* normalize_listed_symbol and the rows; 404 when there is none.           *)
Lookup(r) ==
  /\ Goes(r, "lookup", IF request[r].symbol \in Quoted THEN "lock" ELSE "error")
  /\ UNCHANGED <<server, tab, errors>>

TakesNoLock(r) == Goes(r, "lock", "exists") /\ UNCHANGED <<server, tab, errors>>  \* mutant

(* pg_advisory_xact_lock: adds of one user wait for each other.            *)
Lock(r) ==
  /\ lock = NoRequest /\ lock' = r
  /\ Goes(r, "lock", "exists")
  /\ UNCHANGED <<items, wanted, unqueued, tab, errors>>

Unlock == lock' = NoRequest

Exists(r) ==
  /\ Goes(r, "exists", IF request[r].symbol \in items THEN "list" ELSE "count")
  /\ IF request[r].symbol \in items THEN Unlock ELSE UNCHANGED lock
  /\ UNCHANGED <<items, wanted, unqueued, tab, errors>>

(* WatchlistFull is answered by 409.                                       *)
Count(r) ==
  LET full == Cardinality(items) >= MaxItems IN
  /\ Goes(r, "count", IF full THEN "error" ELSE "insert")
  /\ IF full THEN Unlock ELSE UNCHANGED lock
  /\ UNCHANGED <<items, wanted, unqueued, tab, errors>>

AnsweredAtOnce(r) ==  \* mutant
  /\ Goes(r, "insert", "list") /\ Unlock
  /\ items' = items \cup {request[r].symbol}
  /\ UNCHANGED <<wanted, unqueued, tab, errors>>

Insert(r) ==
  /\ Goes(r, "insert", "queue") /\ Unlock
  /\ items' = items \cup {request[r].symbol}
  /\ UNCHANGED <<wanted, unqueued, tab, errors>>

(* request_symbol_sync after the commit of the row.                        *)
QueueSync(r) ==
  /\ Goes(r, "queue", "list")
  /\ wanted' = wanted \cup {request[r].symbol}
  /\ unqueued' = unqueued \ {request[r].symbol}
  /\ UNCHANGED <<items, lock, tab, errors>>

QueueRaises(r) ==
  /\ Goes(r, "queue", "error")
  /\ errors < MaxErrors /\ errors' = errors + 1
  /\ unqueued' = unqueued \cup {request[r].symbol}
  /\ UNCHANGED <<items, lock, wanted, tab>>

Delete(r) ==
  /\ Goes(r, "delete", "list")
  /\ items' = items \ {request[r].symbol}
  /\ UNCHANGED <<lock, wanted, unqueued, tab, errors>>

KeepsTheStar(r) ==  \* mutant
  /\ request[r].at = "list"
  /\ request' = [request EXCEPT ![r].at = "answer", ![r].list = stars]
  /\ UNCHANGED <<server, tab, errors>>

(* WatchlistService.get, in a transaction after the change.                *)
List(r) ==
  /\ request[r].at = "list"
  /\ request' = [request EXCEPT ![r].at = "answer", ![r].list = items]
  /\ UNCHANGED <<server, tab, errors>>

WatchNext == \E r \in Requests :
  \/ Send(r) \/ Refresh(r) \/ Deliver(r) \/ Lookup(r) \/ Lock(r) \/ Exists(r)
  \/ Count(r) \/ Insert(r) \/ QueueSync(r) \/ QueueRaises(r) \/ Delete(r) \/ List(r)

WatchSpec == WatchInit /\ [][WatchNext]_watchVars

-----------------------------------------------------------------------------
(* The list never grows past its limit, however many adds count it at the  *)
(* same time.                                                              *)
WithinLimit == Cardinality(items) <= MaxItems

(* The history of a stock on the list has been asked for, is about to be,  *)
(* or could not be when it was added: no order of adds and removes lists a *)
(* stock that nobody asked the worker for.                                 *)
ListedIsWanted ==
  \A s \in items : \/ s \in wanted \cup unqueued
                   \/ \E r \in Requests : request[r].at = "queue" /\ request[r].symbol = s

Quiet == \A r \in Requests : ~UnderWay(r)

(* A tab whose requests never overlapped and whose last answer was a list  *)
(* shows the list of the server.                                           *)
LoneAnswersAreCurrent == Quiet /\ ~overlapped /\ ~missed => stars = items
=============================================================================
