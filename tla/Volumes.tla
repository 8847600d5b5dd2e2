-------------------------------- MODULE Volumes --------------------------------
(***************************************************************************)
(* Units and reservoir volumes (ingest/units.py): the conversion between   *)
(* two tags, the free gas of a step and the reservoir volume that goes     *)
(* into the grid.                                                          *)
(*                                                                         *)
(* A factor is in parts of the smallest unit of its kind; formation volume *)
(* factors are in hundredths.                                              *)
(***************************************************************************)
EXTENDS Integers, Sequences, SequencesExt

Units ==
  << [kind |-> "rate", factor |-> [t \in {"m3/d", "bbl/d"} |-> IF t = "m3/d" THEN 6 ELSE 1]],
     [kind |-> "volume", factor |-> [t \in {"m3", "bbl"} |-> IF t = "m3" THEN 6 ELSE 1]],
     [kind |-> "gas_rate", factor |-> [t \in {"m3/d", "Mscf/d"} |-> IF t = "m3/d" THEN 1 ELSE 28]],
     [kind |-> "pressure", factor |-> [t \in {"kPa", "psi"} |-> IF t = "kPa" THEN 1 ELSE 7]] >>

Tags == UNION { DOMAIN u.factor : u \in Range(Units) }

\* unit_kind: the first kind that has the tag; rates and gas rates share one.
UnitKind(tag) ==
  CHOOSE k \in DOMAIN Units :
    /\ tag \in DOMAIN Units[k].factor
    /\ \A j \in 1 .. k - 1 : tag \notin DOMAIN Units[j].factor

Refused == <<>>

\* convert, of the value 1: the factor as a fraction, or an error.
Convert(from, to) ==
  LET factor == Units[UnitKind(from)].factor
  IN  CASE from = to -> <<1, 1>>
        [] from # to /\ to \in DOMAIN factor -> <<factor[from], factor[to]>>
        [] OTHER -> Refused

-----------------------------------------------------------------------------
(***************************************************************************)
(* pvt: constants bo, bw, rs and bg, and a table, sorted by pressure.  The *)
(* grid is built without pressures, for which the code takes 0: below the  *)
(* table, whose first row is used.                                         *)
(***************************************************************************)
IsTable(pvt) == Len(pvt.table) > 1

AtNoPressure(pvt) == IF IsTable(pvt) THEN pvt.table[1] ELSE pvt.constants

GasPvtKnown(pvt) == IsTable(pvt) \/ pvt.constants.rs > 0 \/ pvt.constants.bg > 0

\* detect_free_gas, of a step: more gas than 1.05 times what the oil dissolves; a
\* step without oil has no gas-oil ratio.
FreeGas(oil, gas, rs) == oil > 0 /\ 100 * gas > 105 * rs * oil

\* reservoir_production, as build_grid calls it: a gas column without gas is none.
ReservoirProduction(oil, water, gas, pvt) ==
  LET at == AtNoPressure(pvt)
      given == \E t \in DOMAIN gas : gas[t] # 0
      free == [t \in DOMAIN oil |->
                 /\ given /\ GasPvtKnown(pvt)
                 /\ FreeGas(oil[t], gas[t], at.rs)]
  IN  [ free |-> free,
        volume |-> [t \in DOMAIN oil |->
                      oil[t] * at.bo + water[t] * pvt.bw
                        + IF free[t] THEN (gas[t] - oil[t] * at.rs) * at.bg
                                     ELSE 0] ]

\* The conditions it logs.
VolumeConditions(pvt, free) ==
  (IF IsTable(pvt) THEN {} ELSE {"PVT_CONSTANTS_ASSUMED"})
    \cup (IF \E t \in DOMAIN free : free[t] THEN {"GOR_ABOVE_RS"} ELSE {})
=============================================================================
