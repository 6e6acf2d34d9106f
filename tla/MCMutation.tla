----------------------------- MODULE MCMutation -----------------------------
(***************************************************************************)
(* All specs over two values of every leaf that can be nil or that a list  *)
(* can name, and all lists of one or two fields.                           *)
(***************************************************************************)
EXTENDS MutationChain

MCNames       == {"web"}
MCLabelKeys   == {"team"}
MCLabelValues == {"a"}
MCValues      == {"x", "y"}

MCSpecs ==
  [name       : MCNames,
   labels     : {<<>>, [team |-> "a"]},
   container  : [image : MCValues, secrets : MCValues, rest : {"x"}] \cup {Nil},
   replicated : [replicas : MCValues] \cup {Nil},
   modes      : {NoModes, [NoModes EXCEPT !.global = TRUE],
                 [NoModes EXCEPT !.replicatedJob = "x"], [NoModes EXCEPT !.replicatedJob = "y"]},
   rest       : {"x"}]

MCBodies == [strict : {TRUE}, spec : MCSpecs]
            \cup {[strict |-> FALSE, spec |-> s] : s \in {t \in MCSpecs : t.container = Nil}}

MCLists == {<<f>> : f \in MutationFields}
           \cup {pair \in MutationFields \X MutationFields : pair[1] # pair[2]}
=============================================================================
