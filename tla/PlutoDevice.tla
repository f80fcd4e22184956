----------------------------- MODULE PlutoDevice -----------------------------
(***************************************************************************)
(* PlutoDevice::Impl (native/sdr_core/src/pluto/pluto_device_windows.cpp): *)
(* the radio's settings, written one after the other over a link that may  *)
(* fail at each of them, and the blocks received under them.  All calls    *)
(* are under one mutex, so each is a step.  A setting is [rate, center,    *)
(* mode, gain]; the analog bandwidth is written and checked as the rate is.*)
(***************************************************************************)
EXTENDS Integers, FiniteSets

CONSTANTS Values,     \* of a rate, a center frequency and a gain
          MaxCalls,   \* bound: calls of configure
          MaxTrouble, \* bound: attributes that fail or come out other than written
          MaxSamples  \* bound: samples of one session

VARIABLES
  hw,         \* what the radio is set to
  device,     \* [connected, configured, streaming]: context_, configured_, buffer_
  applied,    \* applied_
  generation, \* generation_
  nextSample, \* first_sample_index_
  blocks,     \* history: [generation, first, length, settings under which it was received]
  spent       \* history: [calls, trouble]

Modes == {"manual", "automatic"}
Settings == [rate : Values, center : Values, mode : Modes, gain : Values]
Nowhere == [rate |-> 0, center |-> 0, mode |-> "manual", gain |-> 0]

(* The gain of an automatic mode is the radio's own affair.                *)
Agree(a, b) ==
  /\ a.rate = b.rate /\ a.center = b.center /\ a.mode = b.mode
  /\ a.mode = "manual" => a.gain = b.gain

-----------------------------------------------------------------------------
(* The radio over libiio: a write arrives, is rounded to what the radio can*)
(* do, or is reported as failed, whether it arrived or not.                *)

Settable(attribute) == IF attribute = "mode" THEN Modes ELSE Values

Written(o, attribute, value) ==
  LET set(v, ok, extra) ==
        [hw |-> [o.hw EXCEPT ![attribute] = v], ok |-> o.ok /\ ok, trouble |-> o.trouble + extra]
  IN {set(value, TRUE, 0)}
     \cup (IF o.trouble < MaxTrouble
           THEN {set(v, TRUE, 1) : v \in Settable(attribute)}
                  \cup {set(v, FALSE, 1) : v \in {value, o.hw[attribute]}}
           ELSE {})

(* A read reports what is set, or fails.                                   *)
Read(o) ==
  {o} \cup (IF o.trouble < MaxTrouble THEN {[o EXCEPT !.ok = FALSE, !.trouble = @ + 1]} ELSE {})

WrittenTo(outcomes, attribute, value) ==
  UNION {Written(o, attribute, value) : o \in outcomes}

-----------------------------------------------------------------------------
(* configure(): the first failure ends the attempt.                        *)
TriedNext(outcomes, attribute, value) ==
  UNION {IF o.ok THEN Written(o, attribute, value) ELSE {o} : o \in outcomes}

Tried(o, request) ==
  LET rate == TriedNext({o}, "rate", request.rate)
      center == TriedNext(rate, "center", request.center)
      mode == TriedNext(center, "mode", request.mode)
      gain == IF request.mode = "manual" THEN TriedNext(mode, "gain", request.gain) ELSE mode
  IN {IF r.hw.mode = request.mode THEN r ELSE [r EXCEPT !.ok = FALSE] :
        r \in UNION {IF g.ok THEN Read(g) ELSE {g} : g \in gain}}

(* Mutant: that each write was accepted is enough for a rollback.          *)
RolledBackUnread(o, old) ==
  LET rate == WrittenTo({[o EXCEPT !.ok = TRUE]}, "rate", old.rate)
      center == WrittenTo(rate, "center", old.center)
      mode == WrittenTo(center, "mode", old.mode)
  IN IF old.mode = "manual" THEN WrittenTo(mode, "gain", old.gain) ELSE mode

(* The rollback goes on after a failure, and is verified by reading.       *)
RolledBack(o, old) ==
  LET rate == WrittenTo({[o EXCEPT !.ok = TRUE]}, "rate", old.rate)
      center == WrittenTo(rate, "center", old.center)
      mode == WrittenTo(center, "mode", old.mode)
      gain == IF old.mode = "manual" THEN WrittenTo(mode, "gain", old.gain) ELSE mode
  IN {[r EXCEPT !.ok = @ /\ Agree(r.hw, old)] : r \in UNION {Read(g) : g \in gain}}

Commit(o) ==
  /\ applied' = o.hw /\ generation' = generation + 1 /\ nextSample' = 0
  /\ device' = [device EXCEPT !.configured = TRUE, !.streaming = FALSE]

GiveUp ==
  /\ applied' = Nowhere /\ generation' = generation + 1 /\ UNCHANGED nextSample
  /\ device' = [device EXCEPT !.configured = FALSE, !.streaming = FALSE]

KeepOld ==
  device' = [device EXCEPT !.streaming = FALSE] /\ UNCHANGED <<applied, generation, nextSample>>

Configure(request) ==
  LET now == [hw |-> hw, ok |-> TRUE, trouble |-> spent.trouble]
      done(o) == hw' = o.hw /\ spent' = [calls |-> spent.calls + 1, trouble |-> o.trouble]
  IN /\ device.connected /\ spent.calls < MaxCalls /\ UNCHANGED blocks
     /\ \E old \in Read(now) :
          IF ~old.ok THEN KeepOld /\ done(old)
          ELSE \E o \in Tried(now, request) :
                 IF o.ok THEN Commit(o) /\ done(o)
                 ELSE \E r \in RolledBack(o, hw) :
                        done(r) /\ IF r.ok THEN KeepOld ELSE GiveUp

(* start_stream(): enabling the channels or the buffer may fail.           *)
StartStream ==
  /\ device.connected /\ device.configured /\ ~device.streaming
  /\ device' = [device EXCEPT !.streaming = TRUE]
  /\ UNCHANGED <<hw, applied, generation, nextSample, blocks, spent>>

(* refill(): all or a part of the buffer; the samples count also when there*)
(* is no pool slot for the block.  A failed refill changes nothing.        *)
Refill ==
  /\ device.connected /\ device.configured /\ device.streaming
  /\ \E length \in {1, 2}, slot \in BOOLEAN :
       /\ nextSample + length <= MaxSamples /\ nextSample' = nextSample + length
       /\ blocks' = IF slot
            THEN blocks \cup {[generation |-> generation, first |-> nextSample, length |-> length,
                               says |-> applied, settings |-> hw]}
            ELSE blocks
  /\ UNCHANGED <<hw, device, applied, generation, spent>>

StopStream ==
  device.streaming /\ device' = [device EXCEPT !.streaming = FALSE]
    /\ UNCHANGED <<hw, applied, generation, nextSample, blocks, spent>>

Disconnect ==
  /\ device.connected
  /\ device' = [connected |-> FALSE, configured |-> FALSE, streaming |-> FALSE]
  /\ UNCHANGED <<hw, applied, generation, nextSample, blocks, spent>>

(* An automatic gain moves by itself.                                      *)
GainMoves ==
  /\ hw.mode = "automatic" /\ \E g \in Values : hw' = [hw EXCEPT !.gain = g]
  /\ UNCHANGED <<device, applied, generation, nextSample, blocks, spent>>

DeviceInit ==
  /\ hw \in Settings /\ applied = Nowhere /\ generation = 0 /\ nextSample = 0 /\ blocks = {}
  /\ device = [connected |-> TRUE, configured |-> FALSE, streaming |-> FALSE]
  /\ spent = [calls |-> 0, trouble |-> 0]

DeviceNext ==
  \/ \E request \in Settings : Configure(request)
  \/ StartStream \/ Refill \/ StopStream \/ Disconnect \/ GainMoves

deviceVars == <<hw, device, applied, generation, nextSample, blocks, spent>>
DeviceSpec == DeviceInit /\ [][DeviceNext]_deviceVars

-----------------------------------------------------------------------------
(* A block says the settings it was received under, whatever write failed, *)
(* was rounded or could not be undone; a generation names one configuration*)
(* and its samples are numbered once each.                                 *)
BlocksSayTheTruth ==
  /\ \A b \in blocks : Agree(b.says, b.settings)
  /\ \A a, b \in blocks : a.generation = b.generation =>
       Agree(a.settings, b.settings)
         /\ (a = b \/ a.first + a.length <= b.first \/ b.first + b.length <= a.first)
=============================================================================
