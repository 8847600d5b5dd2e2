------------------------------- MODULE WellTypes -------------------------------
(***************************************************************************)
(* What a well is, from the rates reported for it (ingest/welltype.py):    *)
(* the mode of every step, the well's type, the dates of its conversions,  *)
(* the entities its rates are split into by role, and the shares of a      *)
(* commingled well's reservoirs.                                           *)
(*                                                                         *)
(* A history is a sequence of steps, oldest first, each with the volume    *)
(* produced and the volume injected.                                       *)
(***************************************************************************)
EXTENDS Integers, Sequences, FiniteSets, SequencesExt

NoRole == "none"

\* classify_steps: produced, injected, both at once, or idle.
Mode(s) ==
  CASE s.prod > 0 /\ s.inj > 0 -> "B"
    [] s.prod > 0 /\ s.inj <= 0 -> "P"
    [] s.prod <= 0 /\ s.inj > 0 -> "I"
    [] OTHER -> "Z"

Active(history) == { t \in DOMAIN history : Mode(history[t]) # "Z" }

Pure(history) == { t \in DOMAIN history : Mode(history[t]) \in {"P", "I"} }

Earliest(S) == CHOOSE t \in S : \A u \in S : t <= u
Latest(S) == CHOOSE t \in S : \A u \in S : u <= t

Before(S, t) == { u \in S : u < t }
After(S, t) == { u \in S : u > t }

\* Mutant: a simultaneous step keeps the role the well has had.
RoleKept(history, t) ==
  LET known == { u \in Pure(history) : u <= t }
  IN  IF known = {} THEN "P" ELSE Mode(history[Latest(known)])

\* The role of the well at an active step.  A step that produces and injects is
\* of the next role that is sure, when none follows of the last one.
Role(history, t) ==
  LET later == { u \in Pure(history) : u >= t }
      earlier == Before(Pure(history), t)
  IN  CASE later # {} -> Mode(history[Earliest(later)])
        [] later = {} /\ earlier # {} -> Mode(history[Latest(earlier)])
        [] OTHER -> "P"

\* An active step whose role is not that of the active step before.
IsConversion(history, t) ==
  LET earlier == Before(Active(history), t)
  IN  /\ t \in Active(history)
      /\ earlier # {}
      /\ Role(history, t) # Role(history, Latest(earlier))

Conversions(history) == { t \in DOMAIN history : IsConversion(history, t) }

\* The roles of derive_well_types, from the modes that were seen.
TypeOf(history) ==
  LET seen == { Mode(history[t]) : t \in DOMAIN history }
      p == {"P", "B"} \cap seen # {}
      i == {"I", "B"} \cap seen # {}
  IN  CASE p /\ i -> "MIXED"
        [] p /\ ~i -> "PROD"
        [] i /\ ~p -> "INJ"
        [] OTHER -> "NONE"

\* The role of a well before its first conversion.
FirstRole(history) ==
  IF Active(history) = {} THEN NoRole
  ELSE Role(history, Earliest(Active(history)))

Other(role) == IF role = "P" THEN "I" ELSE "P"

-----------------------------------------------------------------------------
\* split_roles: the rows an entity gets of a well, with the rate of the other
\* role set to zero.  A mixed well is two entities, any other well one.
ProducerRows(history) ==
  { [step |-> t, prod |-> history[t].prod, inj |-> 0] :
      t \in { u \in DOMAIN history : Mode(history[u]) \in {"P", "B"} } }

InjectorRows(history) ==
  { [step |-> t, prod |-> 0, inj |-> history[t].inj] :
      t \in { u \in DOMAIN history : Mode(history[u]) \in {"I", "B"} } }

AllRows(history) ==
  { [step |-> t, prod |-> history[t].prod, inj |-> history[t].inj] :
      t \in DOMAIN history }

SplitRoles(history) ==
  CASE TypeOf(history) = "MIXED" ->
         [P |-> ProducerRows(history), I |-> InjectorRows(history)]
    [] TypeOf(history) = "PROD" -> [P |-> AllRows(history), I |-> {}]
    [] TypeOf(history) = "INJ" -> [P |-> {}, I |-> AllRows(history)]
    [] TypeOf(history) = "NONE" -> [P |-> {}, I |-> {}]

-----------------------------------------------------------------------------
(***************************************************************************)
(* split_commingled.  The rows of a well in the category table name a      *)
(* reservoir, or none, and the share of it, or none.  The shares are kept  *)
(* by reservoir: of two rows with the same one the last counts.            *)
(***************************************************************************)
NoReservoir == "null"
NoShare == -1

Reservoirs(rows) == { rows[k].reservoir : k \in DOMAIN rows }

Commingled(rows) == Cardinality(Reservoirs(rows) \ {NoReservoir}) > 1

SharesGiven(rows) == \A k \in DOMAIN rows : rows[k].share # NoShare

TotalShare(rows) == FoldLeft(LAMBDA total, row : total + row.share, 0, rows)

LastRow(rows, r) == Latest({ k \in DOMAIN rows : rows[k].reservoir = r })

\* The share of a reservoir is Numerator over Denominator.
Numerator(rows, r) ==
  IF SharesGiven(rows) THEN rows[LastRow(rows, r)].share ELSE 1

Denominator(rows) ==
  CASE SharesGiven(rows) /\ TotalShare(rows) # 0 -> TotalShare(rows)
    [] SharesGiven(rows) /\ TotalShare(rows) = 0 -> 1
    [] OTHER -> Len(rows)

\* The volume of the well's entities is this much over Denominator of its own.
SplitVolume(rows) ==
  FoldSet(LAMBDA r, sum : sum + Numerator(rows, r), 0, Reservoirs(rows))
=============================================================================
