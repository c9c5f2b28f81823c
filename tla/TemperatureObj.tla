--------------------------- MODULE TemperatureObj ---------------------------
(***************************************************************************)
(* src/temperature_obj.c: the LwM2M Temperature object.                    *)
(*                                                                         *)
(* The main loop alternates between Anjay (external), which calls the      *)
(* handlers, and temperature_sensor_update, which reads the two samples    *)
(* that the DMA keeps overwriting.  The DMA writes the samples of a scan   *)
(* one after the other, between any two accesses of the main loop, so a    *)
(* measurement may combine samples of different scans.                     *)
(*                                                                         *)
(* The conversion of read_current_temperature is a constant function of    *)
(* the two samples; for samples that make it divide by zero it yields NaN, *)
(* which no comparison but != holds for.                                   *)
(***************************************************************************)
EXTENDS Integers

CONSTANTS
    Scans,          \* pairs of samples, [vref, temp], the ADC may produce
    Temperature,    \* [vref][temp]: the reading, an integer or NaN
    NaN, None,
    Strings,        \* values of the application type, whole or half-written
    Sensor_1        \* the initial one

Readings == {Temperature[s.vref][t.temp] : s, t \in Scans}

ASSUME TemperatureAssumption ==
    /\ Readings \subseteq Int \cup {NaN} /\ NaN \notin Int
    /\ \A s \in Scans : s = [vref |-> s.vref, temp |-> s.temp] /\ None \notin {s, s.vref}
    /\ None \notin {"no", "yes"}
    /\ Sensor_1 \in Strings

VARIABLES
    adc_dma_buff,   \* the samples last written
    scan,           \* the scan of which the DMA has yet to write the second sample
    vref_raw,       \* read_current_temperature's local, None outside of it
    sensor_value, min_sensor_value, max_sensor_value,
    application_type, application_type_cached,
    failed,         \* Anjay: has a write of the open transaction failed; None if there is none
    reported,       \* history: what Anjay was last told about the three values
    measured,       \* history: the readings since init or the last reset, and the first
    committed       \* history: the application type of the last successful transaction

temps == <<sensor_value, min_sensor_value, max_sensor_value>>
app == <<application_type, application_type_cached, failed, committed>>
dma == <<adc_dma_buff, scan>>
vars == <<dma, vref_raw, temps, app, reported, measured>>

(* temperature_sensor_init, whose measurement may be of two scans as well.  *)
Init ==
    /\ adc_dma_buff \in Scans
    /\ \E v \in Readings :
         /\ sensor_value = v /\ min_sensor_value = v /\ max_sensor_value = v
         /\ reported = [value |-> v, min |-> v, max |-> v]
         /\ measured = [first |-> v, all |-> {v}]
    /\ scan = None /\ vref_raw = None
    /\ application_type = Sensor_1 /\ application_type_cached = Sensor_1
    /\ committed = Sensor_1 /\ failed = None

-----------------------------------------------------------------------------
(* The DMA. *)
WriteVref(s) ==
    /\ scan = None
    /\ adc_dma_buff' = [adc_dma_buff EXCEPT !.vref = s.vref]
    /\ scan' = s
    /\ UNCHANGED <<vref_raw, temps, app, reported, measured>>

WriteTemp ==
    /\ scan # None
    /\ adc_dma_buff' = [adc_dma_buff EXCEPT !.temp = scan.temp]
    /\ scan' = None
    /\ UNCHANGED <<vref_raw, temps, app, reported, measured>>

-----------------------------------------------------------------------------
(* temperature_sensor_update *)
Less(x, y) == x # NaN /\ y # NaN /\ x < y
Differ(x, y) == x = NaN \/ y = NaN \/ x # y

ReadVref ==
    /\ vref_raw = None
    /\ vref_raw' = adc_dma_buff.vref
    /\ UNCHANGED <<dma, temps, app, reported, measured>>

\* Mutants: min and max are exclusive; the maximum is not reported.
Mut_Track(v) ==
    /\ sensor_value' = v
    /\ min_sensor_value' = IF Less(v, min_sensor_value) THEN v ELSE min_sensor_value
    /\ max_sensor_value' = IF ~Less(v, min_sensor_value) THEN v ELSE max_sensor_value
    /\ reported' = [value |-> v, min |-> min_sensor_value', max |-> max_sensor_value']

Mut_Track_Silent(v) ==
    /\ sensor_value' = v
    /\ min_sensor_value' = IF Less(v, min_sensor_value) THEN v ELSE min_sensor_value
    /\ max_sensor_value' = IF Less(max_sensor_value, v) THEN v ELSE max_sensor_value
    /\ reported' = [reported EXCEPT !.value = v,
                                    !.min = IF Less(v, min_sensor_value) THEN v ELSE @]

Track(v) ==
    /\ sensor_value' = v
    /\ min_sensor_value' = IF Less(v, min_sensor_value) THEN v ELSE min_sensor_value
    /\ max_sensor_value' = IF Less(max_sensor_value, v) THEN v ELSE max_sensor_value
    /\ reported' = [value |-> IF Differ(sensor_value, v) THEN v ELSE reported.value,
                    min |-> IF Less(v, min_sensor_value) THEN v ELSE reported.min,
                    max |-> IF Less(max_sensor_value, v) THEN v ELSE reported.max]

temperature_sensor_update ==
    /\ vref_raw # None
    /\ LET v == Temperature[vref_raw][adc_dma_buff.temp]
       IN  Track(v) /\ measured' = [measured EXCEPT !.all = @ \cup {v}]
    /\ vref_raw' = None
    /\ UNCHANGED <<dma, app>>

(* The reset resource: both extremes become the current value.             *)
res_execute ==
    /\ vref_raw = None
    /\ min_sensor_value' = sensor_value /\ max_sensor_value' = sensor_value
    /\ reported' = [reported EXCEPT !.min = sensor_value, !.max = sensor_value]
    /\ measured' = [first |-> sensor_value, all |-> {sensor_value}]
    /\ UNCHANGED <<dma, vref_raw, sensor_value, app>>

-----------------------------------------------------------------------------
(* A write of the application type: Anjay opens a transaction, writes the  *)
(* value in chunks, any of which may be refused, and ends the transaction  *)
(* with an error if one was, or for a reason of its own.                   *)
\* Mutant: the value to return to is not saved.
Mut_transaction_begin ==
    /\ vref_raw = None /\ failed = None
    /\ failed' = "no"
    /\ UNCHANGED <<dma, vref_raw, temps, application_type, application_type_cached,
                   committed, reported, measured>>

transaction_begin ==
    /\ vref_raw = None /\ failed = None
    /\ application_type_cached' = application_type
    /\ failed' = "no"
    /\ UNCHANGED <<dma, vref_raw, temps, application_type, committed, reported, measured>>

res_write(s) ==
    /\ vref_raw = None /\ failed = "no"
    /\ application_type' = s
    /\ failed' \in {"no", "yes"}
    /\ UNCHANGED <<dma, vref_raw, temps, application_type_cached, committed, reported, measured>>

transaction_end(result) ==
    /\ vref_raw = None /\ failed # None
    /\ failed = "yes" => result # 0
    /\ application_type' = IF result # 0 THEN application_type_cached ELSE application_type
    /\ committed' = IF result # 0 THEN committed ELSE application_type
    /\ failed' = None
    /\ UNCHANGED <<dma, vref_raw, temps, application_type_cached, reported, measured>>

-----------------------------------------------------------------------------
Next ==
    \/ (\E s \in Scans : WriteVref(s)) \/ WriteTemp
    \/ ReadVref \/ temperature_sensor_update
    \/ res_execute
    \/ transaction_begin \/ (\E s \in Strings : res_write(s))
    \/ (\E result \in {0, 1} : transaction_end(result))

Spec == Init /\ [][Next]_vars

-----------------------------------------------------------------------------
(* The minimum and the maximum are what was really measured since the last *)
(* reset, torn measurements included, and nothing measured lies outside    *)
(* them.  A NaN leaves them alone, unless it is what the reset found: then *)
(* they stay NaN until the next reset.                                     *)
ExtremesAreMeasured ==
    measured.first # NaN =>
        /\ {min_sensor_value, max_sensor_value} \subseteq measured.all \ {NaN}
        /\ \A v \in measured.all \ {NaN} : min_sensor_value <= v /\ v <= max_sensor_value

(* Nothing observable changes behind Anjay's back: what Anjay was told     *)
(* about the three resources, through anj_core_data_model_changed, is what *)
(* a read would return.                                                    *)
ChangesAreReported ==
    reported = [value |-> sensor_value, min |-> min_sensor_value, max |-> max_sensor_value]

(* A transaction that fails, after any number of chunks and with any       *)
(* number of updates and resets in between, leaves no trace: outside       *)
(* transactions the application type is that of the last successful one.   *)
FailedWriteLeavesNoTrace == failed = None => application_type = committed
=============================================================================
