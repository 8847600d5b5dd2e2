-------------------------------- MODULE Settings --------------------------------
(***************************************************************************)
(* The configuration of a run (config.py): the file, with the global       *)
(* overrides over it, those of the project over both, and those of the     *)
(* request over all.  A nested mapping is a function from paths of keys to *)
(* values in which no path goes on from another; a section without keys is *)
(* not told from one that is not there.                                    *)
(***************************************************************************)
EXTENDS Sequences, SequencesExt

\* One of the paths goes on from the other, or they are the same.
Meet(p, q) == IsPrefix(p, q) \/ IsPrefix(q, p)

Under(p, q) == p # q /\ IsPrefix(p, q)

NoConfig == [p \in {} |-> 0]

\* Mutant: a section replaces the one there was.
DeepUpdateShallow(base, upd) ==
  LET kept == { p \in DOMAIN base : \A u \in DOMAIN upd : Head(p) # Head(u) }
  IN  [p \in kept \cup DOMAIN upd |-> IF p \in kept THEN base[p] ELSE upd[p]]

\* _deep_update: sections are merged, everything else is replaced, also a section
\* by a value and a value by a section.
DeepUpdate(base, upd) ==
  LET kept == { p \in DOMAIN base : \A u \in DOMAIN upd : ~Meet(p, u) }
  IN  [p \in kept \cup DOMAIN upd |-> IF p \in kept THEN base[p] ELSE upd[p]]

\* Config.__getitem__ and get: the value at a path, or the section under it; where
\* there is neither, NoConfig, the caller takes a value of its own.
Get(cfg, path) ==
  [p \in { q \in DOMAIN cfg : IsPrefix(path, q) } |-> cfg[p]]

\* patch_thresholds: an override can be changed by a patch, not taken away.
Patched(patches) == FoldLeft(DeepUpdate, NoConfig, patches)

\* effective_config, with the overrides of a project and of a request, if any.
EffectiveConfig(base, global, project, extra) ==
  FoldLeft(DeepUpdate, base, <<global, project, extra>>)
=============================================================================
