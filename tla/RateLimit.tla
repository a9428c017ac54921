----------------------------- MODULE RateLimit -----------------------------
(***************************************************************************)
(* The throttles of the unauthenticated endpoints: RateLimit of            *)
(* platform/middleware/ratelimit.go, one instance for each of the four     *)
(* guards of auth/routes.go as cmd/api/main.go builds them, with the key   *)
(* each request falls under.                                               *)
(*                                                                         *)
(* The sliding window of the Fiber limiter is external code, modelled from *)
(* its use: per key it counts the requests of the current and of the       *)
(* previous window, refused ones included, and lets a request through if   *)
(* the share of the previous window that still slides over now, rounded    *)
(* down, and the current one do not exceed Max.  An entry is forgotten one *)
(* window after its own.  Time is relative to now, so no run ends: an      *)
(* entry holds the ticks left in its window.                               *)
(***************************************************************************)
EXTENDS Integers

CONSTANTS
  Calls,           \* the requests that may be made
  TrustedProxies,  \* HTTP_TRUSTED_PROXIES
  MaxRequests,     \* Max: requests allowed inside the window, of each limiter
  Window,          \* the window, in ticks of a second
  MaxHits          \* bound on the requests of one key in one window

ASSUME RateLimitAssumption ==
  MaxRequests \in Nat \ {0} /\ Window \in Nat \ {0} /\ MaxHits \in Nat

VARIABLES
  store,  \* the entries of the limiters, by limiter and key
  seen,   \* history: requests of each person's budget, of up to each age
  taken   \* history: those of each key let through by this process

limitVars == <<store, seen, taken>>

----------------------------------------------------------------------------
\* Which key a request falls under.  A call names its route, the client that
\* makes it, the address its connection comes from, what X-Forwarded-For says
\* when it arrives, and the mailbox in its body, if that can be read.  Clients
\* may share an address or ask for the same mailbox, and one of them may come
\* from many addresses or have a hand in the header.

\* The guard in front of each route.
Limiter(route) ==
  CASE route = "login" -> "Login"
    [] route = "register" -> "Register"
    [] route \in {"resend-verification", "forgot-password"} -> "Email"
    [] route \in {"verify-email", "reset-password"} -> "Verify"

\* c.IP(): from a trusted proxy the header as it is, otherwise the connection.
IP(c) == IF c.from \in TrustedProxies THEN c.forwarded ELSE c.from

\* Mutant: the Email limiter keys on the address like the others.
KeyByAddress(c) == <<Limiter(c.route), IP(c), "any">>

\* The Email limiter keys on the pair of the address and the mailbox, however
\* that is spelled; the others on the address.
Key(c) ==
  IF Limiter(c.route) = "Email" THEN <<"Email", IP(c), c.mailbox>>
  ELSE <<Limiter(c.route), IP(c), "any">>

\* What two calls have to have in common for one to count against the other.
Shares(c, d) ==
  /\ Limiter(c.route) = Limiter(d.route) /\ IP(c) = IP(d)
  /\ Limiter(c.route) = "Email" => c.mailbox = d.mailbox

\* The calls of one person that do.
Budget(c) ==
  [client |-> c.client, limiter |-> Limiter(c.route), ip |-> IP(c),
   mailbox |-> IF Limiter(c.route) = "Email" THEN c.mailbox ELSE "any"]

Keys == {Key(c) : c \in Calls}
Budgets == {Budget(c) : c \in Calls}

----------------------------------------------------------------------------
\* The window

NoEntry == [curr |-> 0, prev |-> 0, left |-> -Window]

\* The entry as a request finds it: a new one, or, when its window is over, the
\* next, which started when it ended.
Rolled(e) ==
  CASE e = NoEntry -> [NoEntry EXCEPT !.left = Window]
    [] e # NoEntry /\ e.left <= 0 -> [curr |-> 0, prev |-> e.curr, left |-> Window + e.left]
    [] OTHER -> e

Rate(e) == (e.prev * e.left) \div Window + e.curr

\* A history counts the requests of age 0 .. a, for each a.
NoHistory(ages) == [a \in ages |-> 0]

\* The stretches of time the properties look back over, from now.
OneWindow == 0 .. Window - 1
TwoWindows == 0 .. 2 * Window - 1

Now(h) == [a \in DOMAIN h |-> h[a] + 1]
Aged(h) == [a \in DOMAIN h |-> IF a = 0 THEN 0 ELSE h[a - 1]]

\* More than MaxRequests is as many as the properties tell apart.
Capped(h) == [a \in DOMAIN h |-> IF h[a] <= MaxRequests THEN h[a] ELSE MaxRequests + 1]

----------------------------------------------------------------------------

\* Mutant: judged, then counted.
HitJudgedFirst(c) ==
  LET found == Rolled(store[Key(c)])
  IN /\ found.curr < MaxHits
     /\ store' = [store EXCEPT ![Key(c)] = [found EXCEPT !.curr = @ + 1]]
     /\ taken' = IF Rate(found) <= MaxRequests THEN [taken EXCEPT ![Key(c)] = Now(@)] ELSE taken

\* One request at one limiter: counted, then judged, under the limiter's lock.
Hit(c) ==
  LET hit == [Rolled(store[Key(c)]) EXCEPT !.curr = @ + 1]
  IN /\ hit.curr <= MaxHits
     /\ store' = [store EXCEPT ![Key(c)] = hit]
     /\ taken' = IF Rate(hit) <= MaxRequests THEN [taken EXCEPT ![Key(c)] = Now(@)] ELSE taken

Request(c) ==
  /\ Hit(c)
  /\ seen' = [seen EXCEPT ![Budget(c)] = Capped(Now(@))]

LimitTick ==
  /\ store' = [k \in Keys |->
       IF store[k].left <= 1 - Window THEN NoEntry ELSE [store[k] EXCEPT !.left = @ - 1]]
  /\ seen' = [b \in Budgets |-> Aged(seen[b])]
  /\ taken' = [k \in Keys |-> Aged(taken[k])]

\* The entries are in memory: a new process starts without any.
LimitRestart ==
  /\ store' = [k \in Keys |-> NoEntry]
  /\ taken' = [k \in Keys |-> NoHistory(OneWindow)]
  /\ UNCHANGED seen

LimitInit ==
  /\ store = [k \in Keys |-> NoEntry]
  /\ seen = [b \in Budgets |-> NoHistory(TwoWindows)]
  /\ taken = [k \in Keys |-> NoHistory(OneWindow)]

LimitNext == LimitTick \/ LimitRestart \/ \E c \in Calls : Request(c)

LimitSpec == LimitInit /\ [][LimitNext]_limitVars

----------------------------------------------------------------------------
\* Properties

\* Types of the entries: a window is current, or over for less than another.
LimitTypeOK ==
  \A k \in Keys :
    /\ store[k] \in [curr : 0 .. MaxHits, prev : 0 .. MaxHits, left : -Window .. Window]
    /\ store[k].left = -Window => store[k] = NoEntry
    /\ taken[k] \in [OneWindow -> Nat]

\* In no stretch of time as long as the window, wherever it begins, does one key
\* get more than twice MaxRequests through one process, less what two ticks of
\* the window weigh: MaxRequests at the end of a window, and in the last but one
\* tick of the next what the rest of the first leaves.  (RateLimit)
NearlyTwice ==
  Window > 1 => \A k \in Keys :
    taken[k][Window - 1] <= 2 * MaxRequests - (2 * MaxRequests) \div Window

\* Of every state: the entries keep their types, and what got through its bound.
LimitInv == LimitTypeOK /\ NearlyTwice

\* Nobody is refused for what is long past, nor for what others do with whom it
\* has neither the address nor, where mail is sent, the mailbox in common: a
\* refused client has made more than MaxRequests such requests within two
\* windows, or one of those others has made any.  A household behind one address
\* therefore shares no budget for mail to mailboxes of its own.  (RateLimit,
\* KeyGenerator)
RefusalIsEarned ==
  [][ \A c \in Calls :
        Request(c) /\ taken'[Key(c)] = taken[Key(c)] =>
          \/ seen'[Budget(c)][2 * Window - 1] > MaxRequests
          \/ \E d \in Calls :
               /\ d.client # c.client /\ Shares(c, d)
               /\ seen[Budget(d)][2 * Window - 1] > 0 ]_limitVars

\* What a comment says and the weighing of the previous window does not keep:
\* MaxRequests are allowed inside the window.
AtMostMax == \A k \in Keys : taken[k][Window - 1] <= MaxRequests

\* What the documentation says and the pair of address and mailbox does not keep:
\* the endpoints that send mail are throttled by destination, so nobody floods an
\* inbox from many addresses.  Two of them get no more through than one could.
InboxIsThrottled ==
  \A c, d \in Calls :
    /\ Limiter(c.route) = "Email" /\ Limiter(d.route) = "Email"
    /\ c.mailbox = d.mailbox /\ Key(c) # Key(d)
      => taken[Key(c)][Window - 1] + taken[Key(d)][Window - 1] <= 2 * MaxRequests
=============================================================================
