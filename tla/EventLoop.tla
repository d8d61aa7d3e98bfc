------------------------------ MODULE EventLoop ------------------------------
(***************************************************************************)
(* How long the event loop sleeps: the end of compute_timeout in           *)
(* server/event_dispatch.cpp and EventLoop::run in event_loop.cpp.  Times  *)
(* are whole milliseconds of the steady clock.                             *)
(***************************************************************************)
EXTENDS Integers

CONSTANTS IntMax,   \* the largest int
          Forever   \* no deadline, and an epoll_wait without a timeout

ASSUME EventLoopAssumption == IntMax \in Nat /\ Forever \notin Int

\* Mutant: the deadline of WAIT counts only while no client is blocked.
NextDeadline_Blocking(blocking, wait) == IF blocking # Forever THEN blocking ELSE wait

\* The earlier of the blocked clients' deadline and the deadline of WAIT.
NextDeadline(blocking, wait) ==
    IF wait = Forever \/ (blocking # Forever /\ blocking <= wait) THEN blocking ELSE wait

\* The milliseconds from t to deadline d, as compute_timeout returns them.
TimeoutMs(d, t) == IF d = Forever THEN -1 ELSE IF d <= t THEN 0 ELSE d - t

\* static_cast<int>: the milliseconds are a 64-bit number and wrap around.
ToInt(ms) == ((ms + IntMax + 1) % (2 * (IntMax + 1))) - (IntMax + 1)
EpollTimeout(ms) == IF ms < 0 THEN -1 ELSE ToInt(ms)

\* When an epoll_wait that begins at t ends without an event: never, if its
\* timeout is negative.
WakeTime(d, t) ==
    LET timeout == EpollTimeout(TimeoutMs(d, t))
    IN  IF timeout < 0 THEN Forever ELSE t + timeout
============================================================================
