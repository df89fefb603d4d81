---------------------------- MODULE CircuitBreaker ----------------------------
(***************************************************************************)
(* The arithmetic of the circuit breaker every backend resource carries    *)
(* (esitag/resource.go): the back-off threshold and the classification of  *)
(* a breaker from its failure counter, the time of its last failure and    *)
(* the clock.                                                              *)
(*                                                                         *)
(* The code computes with int64 nanoseconds.  Here a time is a number of   *)
(* ticks kept in Width bits, and a second is Second ticks.                 *)
(***************************************************************************)
EXTENDS Integers

CONSTANTS Width,         \* bits of the integer type that holds a time (64 in the code)
          Second,        \* ticks of one second (1e9 nanoseconds in the code)
          CBMaxFailures  \* failures from which a breaker is no longer closed

ASSUME BreakerAssumption == /\ Width \in Nat \ {0}
                            /\ Second \in Nat \ {0}
                            /\ CBMaxFailures \in Nat \ {0}

(* The states of a breaker *)
CBStateOpen     == "open"
CBStateHalfOpen == "half-open"
CBStateClosed   == "closed"
BreakerStates   == {CBStateOpen, CBStateHalfOpen, CBStateClosed}

(* What a Width-bit two's complement integer keeps of n *)
Signed(n) == ((n + 2^(Width - 1)) % 2^Width) - 2^(Width - 1)

(* (1 << failures) * time.Second: a shift by Width bits or more yields zero *)
CBThresholdCalc(failures) ==
    IF failures >= Width THEN 0 ELSE Signed(2^failures * Second)

(* The end of the back-off, as a Unix time rebuilt from whole seconds; the *)
(* code takes the remainder modulo the seconds, not modulo one second.     *)
ThresholdPassed(failures, lastFailureTime, now) ==
    LET lastFailed == Signed(lastFailureTime + CBThresholdCalc(failures))
        secs       == lastFailed \div Second
    IN  secs > 0 /\ now > secs * Second + (lastFailed % secs)

(* Variant of StateOf: one failure more is needed to leave the closed state *)
LateStateOf(failures, lastFailureTime, now) ==
    IF failures <= CBMaxFailures THEN CBStateClosed
    ELSE IF ThresholdPassed(failures, lastFailureTime, now)
         THEN CBStateHalfOpen ELSE CBStateOpen

(* The classification at the end of Resource.CBState *)
StateOf(failures, lastFailureTime, now) ==
    IF failures < CBMaxFailures THEN CBStateClosed
    ELSE IF ThresholdPassed(failures, lastFailureTime, now)
         THEN CBStateHalfOpen ELSE CBStateOpen
===============================================================================
