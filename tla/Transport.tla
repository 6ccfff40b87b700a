----------------------------- MODULE Transport ------------------------------
(***************************************************************************)
(* One outer attempt again, hop by hop: send_once posts to the endpoint's  *)
(* URL, PinningTransport resolves, checks and dials each hop, and the      *)
(* client follows redirects.  A layer over InnerRetry: a step here is a    *)
(* step of a request that InnerRetry does not see, or one of its actions   *)
(* with the request that ends in it.                                       *)
(*                                                                         *)
(* dialled, posts and refusals are history that only properties read.      *)
(***************************************************************************)
EXTENDS InnerRetry, FiniteSets

CONSTANTS
    Names,       \* host names, which a resolver answers as it likes
    Addresses,   \* literal addresses, which are hosts too
    Kinds,       \* what the ipaddress module says of each
    Url          \* the host of the endpoint's URL

\* The categories refused always, and those ALLOW_PRIVATE_ADDRESSES relaxes.
Never == {"link-local", "multicast", "unspecified", "carrier-grade NAT"}
Local == {"private", "loopback", "reserved"}

ASSUME TransportAssumption ==
    /\ Kinds \in [Addresses -> SUBSET (Never \cup Local)]
    /\ Names \cap Addresses = {}
    /\ Url \in Names \cup Addresses

VARIABLES
    hatch,      \* ALLOW_PRIVATE_ADDRESSES
    hop,        \* where the request is: none in flight, to be pinned, pinned
    host,       \* the host its URL names now
    followed,   \* redirects followed so far
    spent,      \* ticks it has taken so far
    dialled,    \* every address a connection was made to
    posts,      \* requests whose first hop was dialled
    refusals    \* hops refused as unsafe

request == <<hop, host, followed, spent>>
wire == <<dialled, posts, refusals>>
transportVars == <<vars, hatch, request, wire>>

Hosts == Names \cup Addresses

TransportInit ==
    /\ Init
    /\ hatch \in BOOLEAN
    /\ hop = "none"
    /\ host = Url
    /\ followed = 0
    /\ spent = 0
    /\ dialled = {}
    /\ posts = 0
    /\ refusals = 0

-----------------------------------------------------------------------------
(* check_address and resolve_destination *)

\* A mutant: the hatch lets everything local through, whatever else it is.
UnsafeUnlessLocal(a) ==
    IF hatch THEN Kinds[a] # {} /\ Kinds[a] \cap Local = {} ELSE Kinds[a] # {}

\* check_address refuses a.
Unsafe(a) ==
    Kinds[a] \cap (IF hatch THEN Never ELSE Never \cup Local) # {}

\* What the URL's host may resolve to: itself if it is an address, and else
\* any list of addresses, whatever it was a moment ago.
Resolutions ==
    IF host \in Addresses THEN {{host}} ELSE SUBSET Addresses \ {{}}

-----------------------------------------------------------------------------
(* One request *)

\* The request is over, and the loop has its outcome.
Over ==
    /\ hop' = "none"
    /\ host' = Url
    /\ followed' = 0
    /\ spent' = 0
    /\ UNCHANGED hatch

\* The request comes back as o, d ticks after its last hop began.
ComesBack(o, d) ==
    /\ Attempt(o, followed)
    /\ clock' = clock + spent + d
    /\ Over

\* client.post.
Post ==
    /\ pc = "attempt"
    /\ hop = "none"
    /\ hop' = "pin"
    /\ UNCHANGED <<vars, hatch, host, followed, spent, wire>>

\* A mutant: the first address is checked, and the connection resolves again.
PinFirst(all, a) ==
    /\ hop = "pin"
    /\ all \in Resolutions
    /\ \E first \in all : ~Unsafe(first)
    /\ host' = a
    /\ hop' = "dial"
    /\ UNCHANGED <<vars, hatch, followed, spent, wire>>

\* Every address of the answer is safe, and the URL is rewritten to one.
Pin(all, a) ==
    /\ hop = "pin"
    /\ all \in Resolutions
    /\ a \in all
    /\ \A b \in all : ~Unsafe(b)
    /\ host' = a
    /\ hop' = "dial"
    /\ UNCHANGED <<vars, hatch, followed, spent, wire>>

\* One of them is not: the whole outer attempt ends, whatever it did before.
RefuseHop(all) ==
    /\ hop = "pin"
    /\ all \in Resolutions
    /\ \E b \in all : Unsafe(b)
    /\ refusals' = refusals + 1
    /\ Raise(followed)
    /\ clock' = clock + spent
    /\ Over
    /\ UNCHANGED <<dialled, posts>>

\* The resolver is down: a ConnectError, like any transport error.
Unresolved ==
    /\ hop = "pin"
    /\ host \in Names
    /\ ComesBack(Outcome(NoAnswer, FALSE), 0)
    /\ UNCHANGED wire

\* A connection is made to the URL's host, which is an address by now.
Dials ==
    /\ hop = "dial"
    /\ dialled' = dialled \cup {host}
    /\ posts' = posts + IF followed = 0 THEN 1 ELSE 0
    /\ UNCHANGED refusals

\* A final status, or a transport error (NoAnswer), d ticks into the hop.
Answer(s, named, d) ==
    /\ Dials
    /\ ComesBack(Outcome(s, named), d)

\* A mutant: the budget is counted one too many.
RedirectOneMore(to, d) ==
    /\ Dials
    /\ followed <= MaxRedirects
    /\ followed' = followed + 1
    /\ spent' = spent + d
    /\ host' = to
    /\ hop' = "pin"
    /\ UNCHANGED <<vars, hatch>>

\* A mutant: the budget is never spent.  (Past it, those that take no time.)
RedirectForEver(to, d) ==
    /\ Dials
    /\ IF followed < MaxRedirects THEN followed' = followed + 1
                                  ELSE followed' = followed /\ d = 0
    /\ spent' = spent + d
    /\ host' = to
    /\ hop' = "pin"
    /\ UNCHANGED <<vars, hatch>>

\* A redirect is another request through the same transport, to a host that
\* is pinned like the first.
Redirect(to, d) ==
    /\ Dials
    /\ followed < MaxRedirects
    /\ followed' = followed + 1
    /\ spent' = spent + d
    /\ host' = to
    /\ hop' = "pin"
    /\ UNCHANGED <<vars, hatch>>

\* The redirect budget is spent: TooManyRedirects, which is a transport error
\* to send_once and is retried.
TooManyRedirects(d) ==
    /\ Dials
    /\ followed = MaxRedirects
    /\ ComesBack(Outcome(NoAnswer, FALSE), d)

Hop ==
    \/ Post
    \/ \E all \in Resolutions : RefuseHop(all) \/ \E a \in Addresses : Pin(all, a)
    \/ Unresolved
    \/ \E d \in 0 .. Timeout :
          \/ \E s \in Statuses \cup {NoAnswer}, named \in BOOLEAN : Answer(s, named, d)
          \/ \E to \in Hosts : Redirect(to, d)
          \/ TooManyRedirects(d)

\* What the loop does between its requests.
Between ==
    /\ hop = "none"
    /\ Refuse \/ Begin \/ GiveUp \/ Sleep
    /\ UNCHANGED <<hatch, request, wire>>

TransportNext ==
    \/ Hop
    \/ Between
    \/ Drift /\ UNCHANGED <<hatch, request, wire>>

TransportSpec ==
    /\ TransportInit
    /\ [][TransportNext]_transportVars
    /\ WF_transportVars(Hop \/ Between)

-----------------------------------------------------------------------------
(* Properties *)

\* Every variable keeps to its type: no more redirects are followed than
\* MAX_REDIRECTS, and no hop lasts more than a timeout.
TransportTypeOK ==
    /\ TypeOK
    /\ hatch \in BOOLEAN
    /\ hop \in {"none", "pin", "dial"}
    /\ host \in IF hop = "dial" THEN Addresses ELSE Hosts
    /\ followed \in 0 .. MaxRedirects
    /\ spent \in 0 .. Timeout * followed
    /\ dialled \subseteq Addresses
    /\ posts \in Nat
    /\ refusals \in Nat

\* Whatever the resolver answers, and from one moment to the next, and
\* wherever redirects lead, a connection is only made to a public address, or
\* with the hatch open to one of this machine or this network; never to the
\* rest (PinningTransport, resolve_destination, check_address).
DialsOnlySafe ==
    \A a \in dialled : Kinds[a] = {} \/ (hatch /\ Kinds[a] \cap Never = {})

\* send_webhook raises exactly when the lease has no room or a hop was unsafe,
\* and the first unsafe hop is the last: it is not retried, and a resolver
\* that is down is (resolve_destination, UnsafeDestination).
RaisesForCause ==
    /\ pc = "refused" <=> (pc # "policy" /\ Deadline <= 0)
    /\ pc = "raised" <=> refusals = 1
    /\ refusals <= 1

\* Every request that went out is in history, whatever became of it,
\* unless it is in flight or one of its redirects was refused: that raise takes
\* the outcome of its own request with it, and no other, since history is a list
\* of the caller's that outlives the raise (send_webhook).
HistoryIsWhole ==
    /\ hop = "none" /\ pc # "raised" => posts <= requests
    /\ posts <= requests + 1

\* Hop by hop, the loop is the one whose time InnerRetry accounts for.
IsTheInnerRetry == Init /\ [][Next]_vars
=============================================================================
