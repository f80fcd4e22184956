---------------------------- MODULE MCNativeParts ----------------------------
(***************************************************************************)
(* Parts of the native core and the diagnostics of sdr_monitor for TLC, one*)
(* of which moves: the CPU DSP backend, a GPU backend with the CPU backend *)
(* as its standby, the radio's settings, and the page that tests the core  *)
(* and the receiver.  What does not move is left as it began, so that a    *)
(* behaviour of one part is one of that module alone.                      *)
(***************************************************************************)
EXTENDS PlutoDevice, MonitorDiagnostics

VARIABLES
  part, \* "backend", "failover", "radio" or "diagnostics"
  dspConfig, format, ring, ringPos, base, streamPos, nextEnd, current, clippedUntil,
  staged, accum, output, dropped, source, epoch, tally,        \* of CpuDspBackend
  active, replay, pending, committed, last, metrics, grid      \* of FailoverBackend

(* Hops that divide the FFT size or not, batches and averages of one and   *)
(* more; the settings differ from the first in one field each.             *)
Geometry(fft, hop, batch, average) ==
  [fft |-> fft, hop |-> hop, batch |-> batch, average |-> average]
Geometries ==
  {Geometry(2, 1, 1, 2), Geometry(3, 2, 2, 1), Geometry(4, 3, 2, 2), Geometry(2, 2, 1, 1)}

Radio(rate, center, number) == [rate |-> rate, center |-> center, generation |-> number]
FourSettings == {Radio(1, 1, 1), Radio(2, 1, 1), Radio(1, 2, 1), Radio(1, 1, 2)}

Backend ==
  INSTANCE CpuDspBackend WITH Configs <- Geometries, OutputCapacity <- 2,
    Lengths <- {1, 2, 5}, Settings <- FourSettings, MaxBlocks <- 4, MaxOdd <- 1

(* Some blocks are longer than the replay keeps of one, and four are more  *)
(* than it keeps at all.                                                   *)
Failover ==
  INSTANCE FailoverBackend WITH Configs <- Geometries, OutputCapacity <- 4,
    Lengths <- {1, 2, 5}, Settings <- {Radio(1, 1, 1), Radio(1, 2, 1)}, MaxBlocks <- 4, MaxOdd <- 1,
    MaxReplayBlock <- 4, MaxFailures <- 1

backendVars ==
  <<dspConfig, format, ring, ringPos, base, streamPos, nextEnd, current, clippedUntil,
    staged, accum, output, dropped, source, epoch, tally>>
failoverVars == <<active, replay, pending, committed, last, metrics, grid>>

-----------------------------------------------------------------------------
Init ==
  /\ Failover!FailoverInit /\ DeviceInit /\ DiagnosticsInit
  /\ part \in {"backend", "failover", "radio", "diagnostics"}
  /\ part # "backend" => format = "float" /\ source.settings = Radio(1, 1, 1)
  /\ part \in {"radio", "diagnostics"} => dspConfig = Geometry(2, 2, 1, 1)
  /\ hw = [rate |-> 1, center |-> 1, mode |-> "manual", gain |-> 1]

Next ==
  \/ part = "backend" /\ Backend!Next /\ UNCHANGED <<part, failoverVars, deviceVars, diagnosticsVars>>
  \/ part = "failover" /\ Failover!FailoverNext /\ UNCHANGED <<part, deviceVars, diagnosticsVars>>
  \/ part = "radio" /\ DeviceNext /\ UNCHANGED <<part, backendVars, failoverVars, diagnosticsVars>>
  \/ part = "diagnostics" /\ DiagnosticsNext /\ UNCHANGED <<part, backendVars, failoverVars, deviceVars>>

Spec == Init /\ [][Next]_<<part, backendVars, failoverVars, deviceVars, diagnosticsVars>>

-----------------------------------------------------------------------------
(* The properties of the instances, stated where they are defined.         *)

(* CpuDspBackend: the windows formed are those of the reference definition,*)
(* none mixes samples or settings, and each has one fate.                  *)
WindowsAreExact == part = "backend" => Backend!WindowsAreExact

(* FailoverBackend: after a failure the stream goes on as if none had been,*)
(* and the frame that comes from the other backend says so.                *)
FailoverIsExact == Failover!FailoverIsExact
=============================================================================
