------------------------------ MODULE RateLimiter ------------------------------
(***************************************************************************)
(* The two packet-rate limiters of scanner/common.go: globalLimiter, one   *)
(* variable of the package that SetPps assigns and the first Scan fills in *)
(* when nobody did, and localLimiter, one per scan.  Each is a             *)
(* golang.org/x/time/rate.Limiter whose burst is its rate, and every       *)
(* sender of the scanner asks both, the global one first.                  *)
(*                                                                         *)
(* The library is outside the repository: NewLimiter, WaitN and the        *)
(* passage of time are modelled from how the scanner uses them (never with *)
(* a deadline, never cancelled).  A limiter is a token bucket.  WaitN(n)   *)
(* takes n tokens at once, on credit if they are not there, and sleeps     *)
(* until the debt at that moment is paid; it returns an error, and takes   *)
(* nothing, when n exceeds the burst.                                      *)
(*                                                                         *)
(* Time passes in ticks, TicksPerSecond to the second; credit is counted   *)
(* in 1/TicksPerSecond of a packet, so that a tick adds exactly the rate.  *)
(***************************************************************************)
EXTENDS Integers, FiniteSetsExt

CONSTANTS
  Scans,            (* calls of Scan                                        *)
  Senders,          (* the goroutines that ask the limiters                 *)
  Rates,            (* packets per second a user may ask for                *)
  TicksPerSecond    (* bound: the grain of time                             *)

ASSUME LimiterAssumption ==
  /\ "global" \notin Scans /\ IsFiniteSet(Senders)
  /\ Rates \subseteq Nat \ {0}
  /\ TicksPerSecond \in Nat \ {0}

VARIABLES
  pps,        (* the rate, and the burst, of each limiter                   *)
  credit,     (* its tokens                                                 *)
  wait,       (* ticks a sender still sleeps in WaitN                       *)
  setUp,      (* how far each Scan is with globalLimiter                    *)
  made        (* how often globalLimiter has been assigned                  *)

limiterVars == <<pps, credit, wait, setUp, made>>

Limiters == {"global"} \cup Scans
Full(l) == pps[l] * TicksPerSecond

\* Every limiter starts full.  globalLimiter is nil (made = 0) or was set by
\* ParseGlobalOptionsFlags before any scan; its rate is then the same for every
\* assignment, and a rule's rate is its own.
LimiterInit ==
  /\ pps \in [Limiters -> Rates]
  /\ credit = [l \in Limiters |-> Full(l)]
  /\ wait = [s \in Senders |-> 0]
  /\ setUp = [c \in Scans |-> "new"]
  /\ made \in {0, 1}

-------------------------------------------------------------------------------
\* if globalLimiter == nil: read without a lock.
CheckLimiter(c) ==
  /\ setUp[c] = "new"
  /\ setUp' = [setUp EXCEPT ![c] = IF made = 0 THEN "missing" ELSE "ready"]
  /\ UNCHANGED <<pps, credit, wait, made>>

\* SetPps(constants.DefaultGlobalPpsLimit): a new limiter, full, in place of
\* whatever is there by now.  Senders read the variable at every call of WaitN.
MakeLimiter(c) ==
  /\ setUp[c] = "missing"
  /\ setUp' = [setUp EXCEPT ![c] = "ready"]
  /\ credit' = [credit EXCEPT !["global"] = Full("global")]
  /\ made' = made + 1
  /\ UNCHANGED <<pps, wait>>

\* Ticks until a bucket with this credit is out of debt.
TicksToPay(l, c) == IF c >= 0 THEN 0 ELSE (-c + pps[l] - 1) \div pps[l]

\* Mutant of Reserve: a limiter that is never charged.
ReserveNothing(s, l, n) ==
  /\ n <= pps[l]
  /\ wait[s] = 0
  /\ UNCHANGED limiterVars

\* WaitN(context.Background(), n) up to its sleep.
Reserve(s, l, n) ==
  /\ n <= pps[l]
  /\ credit' = [credit EXCEPT ![l] = @ - n * TicksPerSecond]
  /\ wait' = [wait EXCEPT ![s] = TicksToPay(l, credit'[l])]
  /\ UNCHANGED <<pps, setUp, made>>

\* Mutant of Refuses: AllowN in place of WaitN, which does not wait for tokens.
RefusesWhenEmpty(l, n) == n * TicksPerSecond > credit[l]

\* WaitN returns its error.
Refuses(l, n) == n > pps[l]

\* Mutant of PassTime: the bucket has no bottom to its burst.
PassTimeUnbounded ==
  /\ credit' = [l \in Limiters |-> credit[l] + pps[l]]
  /\ wait' = [s \in Senders |-> Max({0, wait[s] - 1})]
  /\ UNCHANGED <<pps, setUp, made>>

PassTime ==
  /\ credit' = [l \in Limiters |-> Min({Full(l), credit[l] + pps[l]})]
  /\ wait' = [s \in Senders |-> Max({0, wait[s] - 1})]
  /\ UNCHANGED <<pps, setUp, made>>

LimiterType ==
  /\ pps \in [Limiters -> Rates]
  /\ credit \in [Limiters -> Int] /\ \A l \in Limiters : credit[l] <= Full(l)
  /\ wait \in [Senders -> Nat]
  /\ setUp \in [Scans -> {"new", "missing", "ready"}]
  /\ made \in Nat

===============================================================================
