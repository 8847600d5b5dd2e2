------------------------------- MODULE ReportRules -------------------------------
(***************************************************************************)
(* What is shown of the results of a run, asked for once, and what must    *)
(* hold of the answer.                                                     *)
(***************************************************************************)
EXTENDS Questions, Integers, Sequences, FiniteSets, SequencesExt

Rp == INSTANCE Reporting

CONSTANT Reports    \* runs with the unit system of the project, and evaluations

ReportInit == Asked("report", Reports)

-----------------------------------------------------------------------------
ShowRun ==
  /\ Open("report")
  /\ LET r == input.run
         d == Rp!Display(input.system)
         ids == DOMAIN Rp!Recommendations(r)
     IN  Answer([ bundle |-> Rp!Bundle(r, input.system),
                  kept |-> [id \in ids |-> Rp!Payload(r, id)],
                  shown |-> [id \in ids |->
                               Rp!GetRecommendation(Rp!Payload(r, id), d)],
                  outcome |-> [id \in ids |->
                                 Rp!Evaluation(Rp!Payload(r, id), d, input.months,
                                               input.horizon, input.entered)] ])

-----------------------------------------------------------------------------
(***************************************************************************)
(* The log of a run has every condition of loading and of every sector     *)
(* once, in the order they arose; a green light has no warning behind it,  *)
(* and one window that was too short, be it an old one, makes it red.      *)
(* Recommendations are shown for the sectors of the latest window that     *)
(* could be optimized; the bundle, the forecast's rates and the            *)
(* recommendation that is kept show the same rates, those of the plan      *)
(* converted once.  The gain of the values shown is that of the tornado -  *)
(* for money, which is multiplied as if it were a volume, it is not.  An   *)
(* evaluation answers as a comparison with the members shown when they are *)
(* oil; the members of the plan that saves water are not, and no           *)
(* evaluation of it comes out worse.  The water cuts that are kept are     *)
(* those of the producers for the first sector only.  The blind steps are  *)
(* drawn where they were held out, unless the least number of them was     *)
(* more than the share, or two of them were rounded (bundle.py, 87, 352;   *)
(* conditions.py; run.py, 202; service.py, 871-958, 1018-1062).            *)
(***************************************************************************)
ShownAsComputed ==
  Answered("report") =>
    LET r == input.run
        bundle == result.bundle
        log == bundle.conditions
        d == Rp!Display(input.system)
        sectorOf(id) == CHOOSE s \in Range(Rp!Latest(r)) : s.id = id
        drawn(k) == bundle.sectors[k]
        n(k) == Rp!Fitted(r)[k].steps
        kept(id) == result.kept[id]
        shown(id) == result.shown[id].recommendation
    IN  /\ IsInjective(log)
        /\ Range(log) = Range(r.log) \cup
             UNION { Range(Rp!SectorLog(s)) : s \in Range(r.sectors) }
        /\ \A c \in Range(r.log) : \A e \in Range(log) \ Range(r.log) :
             (CHOOSE k \in DOMAIN log : log[k] = c)
               < (CHOOSE k \in DOMAIN log : log[k] = e)
        /\ bundle.light = "green" <=> \A c \in Range(log) : c.level = "info"
        /\ (\E s \in Range(r.sectors) : Rp!IsTooShort(s)) => bundle.light = "red"
        /\ \A k \in DOMAIN bundle.sectors :
             LET s == drawn(k)
                 optimized == /\ s.window = bundle.latest
                              /\ s.id \in DOMAIN result.kept
             IN  /\ s.recommendation # Rp!None <=> optimized
                 /\ optimized => /\ s.recommendation = shown(s.id)
                                 /\ s.planRates = shown(s.id).rates
                 /\ \/ s.blindStart = Rp!P!TrainSteps(n(k), r.percent, r.least)
                    \/ r.least > Rp!P!Rounded(n(k) * r.percent)
                    \/ n(k) * r.percent % 100 = 50
        /\ \A s \in Range(Rp!Latest(r)) : s.fails <=> s.id \notin DOMAIN result.kept
        /\ \A id \in DOMAIN result.kept :
             LET s == sectorOf(id)
                 rec == kept(id).recommendation
             IN  /\ result.shown[id].recommended = shown(id).rates
                 /\ \A k \in DOMAIN s.found :
                      shown(id).rates[k] = d.rate * (IF s.winner = "crmt"
                                                     THEN s.current[k] ELSE s.found[k])
                 /\ s.winner = "crmt" => /\ rec.moved = {} /\ rec.expected = 0
                                         /\ rec.valuePlan = rec.valueBase
                 /\ LET gain == shown(id).valuePlan - shown(id).valueBase
                    IN  CASE r.objective = "oil" -> gain = shown(id).tornado.base
                          [] r.objective = "npv" -> gain = d.volume * shown(id).tornado.base
                          [] r.objective = "min_water" -> \A m \in DOMAIN rec.members : rec.members[m] <= 0
                 /\ r.objective = "oil" /\ input.months >= input.horizon =>
                      /\ result.outcome[id] = "better" =>
                           \E m \in DOMAIN rec.members : input.entered > d.volume * rec.members[m]
                      /\ result.outcome[id] = "worse" =>
                           \E m \in DOMAIN rec.members : input.entered < d.volume * rec.members[m]
                      /\ (\A m \in DOMAIN rec.members : input.entered > d.volume * rec.members[m])
                           => result.outcome[id] = "better"
                 /\ r.objective = "min_water" => result.outcome[id] # "worse"
                 /\ \A k \in DOMAIN kept(id).cuts :
                      \/ kept(id).cuts[k] = <<s.producers[k], s.cuts[k]>>
                      \/ s # Rp!Latest(r)[1]
=============================================================================
