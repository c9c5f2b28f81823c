------------------------ MODULE TemperatureObjProofs ------------------------
(***************************************************************************)
(* Proofs about TemperatureObj, for every set of scans, every conversion   *)
(* of samples to readings, and every set of application types.             *)
(***************************************************************************)
EXTENDS TemperatureObj, TLAPS

(* What the readings need: samples come from scans, though not both from   *)
(* the same one, and what is kept of the readings is readings.             *)
Sampled ==
    /\ \E s, t \in Scans : adc_dma_buff = [vref |-> s.vref, temp |-> t.temp]
    /\ scan \in Scans \cup {None}
    /\ vref_raw = None \/ \E s \in Scans : vref_raw = s.vref
    /\ {sensor_value, min_sensor_value, max_sensor_value} \subseteq Readings
    /\ measured \in [first : Readings, all : SUBSET Readings]

(* Whatever the DMA has done between the two reads, an update stores one   *)
(* of the readings.                                                        *)
LEMMA AReading ==
    ASSUME Sampled, vref_raw # None
    PROVE  Temperature[vref_raw][adc_dma_buff.temp] \in Readings
  <1>1. PICK s \in Scans : vref_raw = s.vref
    BY DEF Sampled
  <1>2. PICK r \in Scans, t \in Scans : adc_dma_buff = [vref |-> r.vref, temp |-> t.temp]
    BY DEF Sampled
  <1>3. adc_dma_buff.temp = t.temp
    BY <1>2
  <1> QED
    BY <1>1, <1>3 DEF Readings

(* Tracking keeps the three values and the measurements among the readings. *)
LEMMA TrackReadings ==
    ASSUME Sampled, NEW v \in Readings, Track(v),
           measured' = [measured EXCEPT !.all = @ \cup {v}]
    PROVE  /\ {sensor_value, min_sensor_value, max_sensor_value}' \subseteq Readings
           /\ measured' \in [first : Readings, all : SUBSET Readings]
  BY DEF Sampled, Track

(* The samples and readings of Sampled at the start. *)
LEMMA InitSampled == Init => Sampled
  BY TemperatureAssumption DEF Init, Sampled, Readings

(* Every step keeps Sampled: the DMA mixes scans, an update stores one of  *)
(* the readings, the other handlers only copy.                             *)
LEMMA NextSampled == Sampled /\ [Next]_vars => Sampled'
  <1> SUFFICES ASSUME Sampled, [Next]_vars PROVE Sampled'
    OBVIOUS
  <1>1. ASSUME NEW s \in Scans, WriteVref(s) PROVE Sampled'
    BY <1>1, TemperatureAssumption DEF WriteVref, Sampled, temps
  <1>2. CASE WriteTemp
    BY <1>2, TemperatureAssumption DEF WriteTemp, Sampled, temps
  <1>3. CASE ReadVref
    <2>1. PICK s \in Scans : adc_dma_buff.vref = s.vref
      BY DEF Sampled
    <2> QED
      BY <1>3, <2>1 DEF ReadVref, Sampled, dma, temps
  <1>4. CASE temperature_sensor_update
    <2> DEFINE v == Temperature[vref_raw][adc_dma_buff.temp]
    <2>1. v \in Readings
      BY <1>4, AReading DEF temperature_sensor_update
    <2>2. Track(v) /\ measured' = [measured EXCEPT !.all = @ \cup {v}]
      BY <1>4 DEF temperature_sensor_update
    <2> HIDE DEF v
    <2> QED
      BY <1>4, <2>1, <2>2, TrackReadings DEF temperature_sensor_update, Sampled, dma
  <1>5. CASE res_execute
    BY <1>5 DEF res_execute, Sampled, dma
  <1>6. CASE \/ transaction_begin
             \/ \E s \in Strings : res_write(s)
             \/ \E result \in {0, 1} : transaction_end(result)
    BY <1>6 DEF transaction_begin, res_write, transaction_end, Sampled, dma, temps
  <1>7. CASE UNCHANGED vars
    BY <1>7 DEF vars, Sampled, dma, temps
  <1> QED
    BY <1>1, <1>2, <1>3, <1>4, <1>5, <1>6, <1>7 DEF Next

-----------------------------------------------------------------------------
(* An update moves the extremes to what it measured, and only there. *)
LEMMA TrackExtremes ==
    ASSUME Sampled, ExtremesAreMeasured, NEW v \in Readings, Track(v),
           measured' = [measured EXCEPT !.all = @ \cup {v}]
    PROVE  ExtremesAreMeasured'
  <1> SUFFICES ASSUME measured'.first # NaN
               PROVE  /\ {min_sensor_value, max_sensor_value}' \subseteq measured'.all \ {NaN}
                      /\ \A w \in measured'.all \ {NaN} :
                            min_sensor_value' <= w /\ w <= max_sensor_value'
    BY DEF ExtremesAreMeasured
  <1>1. /\ measured'.first = measured.first
        /\ measured'.all = measured.all \cup {v}
    BY DEF Sampled
  <1>2. /\ {min_sensor_value, max_sensor_value} \subseteq measured.all \ {NaN}
        /\ \A w \in measured.all \ {NaN} : min_sensor_value <= w /\ w <= max_sensor_value
    BY <1>1 DEF ExtremesAreMeasured
  <1>3. measured.all \subseteq Int \cup {NaN} /\ v \in Int \cup {NaN}
    BY TemperatureAssumption DEF Sampled
  <1>4. CASE v = NaN
    BY <1>1, <1>2, <1>4 DEF Track, Less
  <1>5. CASE v # NaN
    BY <1>1, <1>2, <1>3, <1>5 DEF Track, Less
  <1> QED
    BY <1>4, <1>5

(* For every conversion and every interleaving of the DMA with the main    *)
(* loop, the extremes are readings really taken since the last reset, and  *)
(* bound all of them.                                                      *)
THEOREM ExtremesHold == Spec => []ExtremesAreMeasured
  <1> DEFINE IInv == Sampled /\ ExtremesAreMeasured
  <1>1. Init => IInv
    <2> SUFFICES ASSUME Init PROVE ExtremesAreMeasured
      BY InitSampled
    <2>1. PICK v : /\ min_sensor_value = v /\ max_sensor_value = v
                   /\ measured = [first |-> v, all |-> {v}]
      BY DEF Init
    <2>2. v \in Readings
      BY <2>1, InitSampled DEF Sampled
    <2> QED
      BY <2>1, <2>2, TemperatureAssumption DEF ExtremesAreMeasured
  <1>2. IInv /\ [Next]_vars => IInv'
    <2> SUFFICES ASSUME IInv, [Next]_vars PROVE ExtremesAreMeasured'
      BY NextSampled
    <2>1. CASE temperature_sensor_update
      <3> DEFINE v == Temperature[vref_raw][adc_dma_buff.temp]
      <3>1. v \in Readings
        BY <2>1, AReading DEF temperature_sensor_update
      <3>2. Track(v) /\ measured' = [measured EXCEPT !.all = @ \cup {v}]
        BY <2>1 DEF temperature_sensor_update
      <3> HIDE DEF v
      <3> QED
        BY <3>1, <3>2, TrackExtremes
    <2>2. CASE res_execute
      <3>1. sensor_value \in Int \cup {NaN}
        BY TemperatureAssumption DEF Sampled
      <3> QED
        BY <2>2, <3>1 DEF res_execute, ExtremesAreMeasured
    <2>3. CASE UNCHANGED <<temps, measured>>
      BY <2>3 DEF temps, ExtremesAreMeasured
    <2> QED
      BY <2>1, <2>2, <2>3
      DEF Next, WriteVref, WriteTemp, ReadVref, transaction_begin, res_write,
          transaction_end, vars
  <1> QED
    BY <1>1, <1>2, PTL DEF Spec

-----------------------------------------------------------------------------
(* Inside a transaction, the saved copy is what a failure returns to. *)
Recoverable == failed # None => application_type_cached = committed

(* Whatever is written in a transaction, and whatever happens in between,  *)
(* a failed transaction restores what the last successful one left.        *)
THEOREM FailuresRestore == Spec => []FailedWriteLeavesNoTrace
  <1> DEFINE IInv == FailedWriteLeavesNoTrace /\ Recoverable
  <1>1. Init => IInv
    BY DEF Init, FailedWriteLeavesNoTrace, Recoverable
  <1>2. IInv /\ [Next]_vars => IInv'
    <2> SUFFICES ASSUME IInv, [Next]_vars PROVE IInv'
      OBVIOUS
    <2> USE DEF FailedWriteLeavesNoTrace, Recoverable
    <2>1. CASE transaction_begin
      BY <2>1 DEF transaction_begin
    <2>2. ASSUME NEW s \in Strings, res_write(s) PROVE IInv'
      BY <2>2, TemperatureAssumption DEF res_write
    <2>3. ASSUME NEW result \in {0, 1}, transaction_end(result) PROVE IInv'
      BY <2>3 DEF transaction_end
    <2>4. CASE UNCHANGED app
      BY <2>4 DEF app
    <2> QED
      BY <2>1, <2>2, <2>3, <2>4
      DEF Next, WriteVref, WriteTemp, ReadVref, temperature_sensor_update, res_execute, vars
  <1> QED
    BY <1>1, <1>2, PTL DEF Spec
-----------------------------------------------------------------------------
(* What Anjay was last told is always what it would read: the comparisons  *)
(* of an update miss no change, not even to or from NaN.                   *)
THEOREM NothingUnreported == Spec => []ChangesAreReported
  <1>1. Init => ChangesAreReported
    BY DEF Init, ChangesAreReported
  <1>2. ChangesAreReported /\ [Next]_vars => ChangesAreReported'
    <2> SUFFICES ASSUME ChangesAreReported, [Next]_vars PROVE ChangesAreReported'
      OBVIOUS
    <2> USE DEF ChangesAreReported
    <2>1. CASE temperature_sensor_update
      BY <2>1 DEF temperature_sensor_update, Track, Differ
    <2>2. CASE res_execute
      BY <2>2 DEF res_execute
    <2>3. CASE UNCHANGED <<temps, reported>>
      BY <2>3 DEF temps
    <2> QED
      BY <2>1, <2>2, <2>3
      DEF Next, WriteVref, WriteTemp, ReadVref, transaction_begin, res_write,
          transaction_end, vars
  <1> QED
    BY <1>1, <1>2, PTL DEF Spec
=============================================================================
