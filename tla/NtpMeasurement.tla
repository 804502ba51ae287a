--------------------------- MODULE NtpMeasurement ---------------------------
(***************************************************************************)
(* The arithmetic of one NTP exchange: unfolding a timestamp whose seconds *)
(* wrap at the end of an era, and ntp.ComputeMeasurement.                  *)
(*                                                                         *)
(* A wire timestamp is its seconds modulo EraSeconds (2^32) and a fraction *)
(* in units; root delay and dispersion arrive together as a root distance. *)
(***************************************************************************)
EXTENDS LeapHistory, FiniteSetsExt

CONSTANTS EraSeconds,       \* 2^32
          EpochOffset,      \* NtpToUnixOffset
          MaxCoarseError,   \* MaxCoarseErrorSec
          Quantization,     \* RemoteTimestampQuantization
          MappingError,     \* LocalMappingIntegrationErr
          PrecisionFloor,   \* PrecisionFloorNs
          MaxTurnaround,    \* MaxServerTurnaroundNs
          MaxRootDistance   \* MaxRootDistanceNs

ASSUME MeasurementAssumption ==
    /\ EraSeconds \in Nat \ {0} /\ EpochOffset \in Nat
    /\ MaxCoarseError \in Nat /\ 2 * MaxCoarseError < EraSeconds
    /\ Quantization \in Nat /\ MappingError \in Nat /\ PrecisionFloor \in Nat
    /\ MaxTurnaround \in Nat /\ MaxRootDistance \in Nat

Wire(unix) == [sec  |-> ((unix \div Sec) + EpochOffset) % EraSeconds,
               frac |-> unix % Sec]

Distance(x, y) == IF x < y THEN y - x ELSE x - y

(* UnfoldNtpSeconds: of the coarse time's era and its neighbours, the one  *)
(* that puts the second within the tolerance of the coarse time, if it is  *)
(* the only one.                                                           *)
UnfoldNtpSeconds(s, coarse) ==
    LET ntp == IF coarse + EpochOffset < 0 THEN 0 ELSE coarse + EpochOffset
        base == ntp \div EraSeconds
        near == {c \in {era * EraSeconds + s : era \in (base - 1)..(base + 1)} :
                    c >= 0 /\ Distance(c, ntp) <= MaxCoarseError}
    IN  IF Cardinality(near) = 1 THEN CHOOSE c \in near : TRUE ELSE NoTime

(* UnfoldTimestamp: all zeros mean "unknown".                              *)
UnfoldTimestamp(wire, coarse) ==
    LET s == UnfoldNtpSeconds(wire.sec, coarse)
    IN  IF (wire.sec = 0 /\ wire.frac = 0) \/ s = NoTime
        THEN NoTime
        ELSE (s - EpochOffset) * Sec + wire.frac

-----------------------------------------------------------------------------
Toward0(x, d) == IF x >= 0 THEN x \div d ELSE -((-x) \div d)

(* ComputeMeasurement's conditions.                                        *)
Measurable(m) ==
    /\ m.r1.raw <= m.r4.raw
    /\ m.t2 <= m.t3
    /\ m.t3 - m.t2 <= MaxTurnaround
    /\ m.root <= MaxRootDistance

RawMid(m) == m.r1.raw + (m.r4.raw - m.r1.raw) \div 2

RawMidReadBound(m) ==
    Max({m.r1.bound, m.r4.bound}) + ((m.r4.raw - m.r1.raw) % 2)

Theta(m) == Toward0((m.t2 - m.t1) + (m.t3 - m.t4), 2)

Center(m) == m.t1 + Toward0(m.t4 - m.t1, 2) + Theta(m)

(* Half the round trip, and everything that may have gone wrong with the   *)
(* four timestamps.  No term is negative, so that the code's last step, to *)
(* raise a negative sum to zero, never applies: a root distance is of an   *)
(* honest server, and one that sends a negative root delay is not.         *)
NetworkBound(m) ==
    LET delta == Max({(m.t4 - m.t1) - (m.t3 - m.t2), PrecisionFloor})
    IN  m.root + delta \div 2 + m.r1.bound + m.r4.bound + Quantization + MappingError

HardInterval(m) ==
    [earliest |-> Center(m) - NetworkBound(m), latest |-> Center(m) + NetworkBound(m)]

(* measureResponse: the interval and its end points in GST, or none.       *)
NoMeasurement == [raw |-> 0, bound |-> 0, earliest |-> NoTime, latest |-> NoTime]

Measurement(table, m) ==
    LET hard == HardInterval(m)
        ends == {UnixNanosToGstInstant(table, hard.earliest),
                 UnixNanosToGstInstant(table, hard.latest),
                 UnixNanosToGstInstant(table, Center(m))}
    IN  IF /\ NoTime \notin {m.t2, m.t3}
           /\ Unambiguous(table, m.t2, m.t3)
           /\ Measurable(m)
           /\ Unambiguous(table, hard.earliest, hard.latest)
           /\ NoTime \notin ends
        THEN [raw |-> RawMid(m), bound |-> RawMidReadBound(m),
              earliest |-> UnixNanosToGstInstant(table, hard.earliest),
              latest |-> UnixNanosToGstInstant(table, hard.latest)]
        ELSE NoMeasurement
=============================================================================
