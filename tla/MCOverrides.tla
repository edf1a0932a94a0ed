----------------------------- MODULE MCOverrides -----------------------------
(***************************************************************************)
(* Instance of Overrides: one plain field, the efforts of the protocols in *)
(* several spellings, and pairs of providers whose defaults and rules, of  *)
(* any target, set either field.                                           *)
(***************************************************************************)
EXTENDS Overrides

CONSTANTS Absent

MCValues == {"1", "2", "high", "HIGH", "HIGH ", "max", "medium", "low", ""}
MCCanonical == [v \in MCValues |-> IF v \in {"HIGH", "HIGH "} THEN "high" ELSE v]
MCFolded == [v \in MCValues |-> IF v = "HIGH" THEN "high" ELSE v]

\* The fields f that an override sets, to values of its own.
Setting(tokens, effort) ==
  [f \in {"max_tokens", ReasoningEffort} |-> IF f = ReasoningEffort THEN effort ELSE tokens]

MCClients ==
  {c \in [openai : BOOLEAN, model : {"sonnet"}, stream : BOOLEAN,
          plain : [{"max_tokens"} -> {"1", Absent}],
          thinking : {"enabled", "disabled", Absent}, effort : {"HIGH ", "", Absent}] :
     c.openai => c.thinking = Absent}

AnyTarget == {[model |-> "sonnet", stream |-> TRUE], [model |-> Absent, stream |-> TRUE],
              [model |-> "opus", stream |-> Absent], [model |-> Absent, stream |-> Absent]}

MCRules == {[model |-> t.model, stream |-> t.stream, params |-> q] :
              t \in AnyTarget, q \in {Setting("2", Absent), Setting(Absent, "max")}}

\* An effort_map that has nothing, or only the effort max.
MaxMappedTo(effort) == [v \in MCValues |-> IF v = "max" THEN effort ELSE Absent]

\* With an override, and with none, as the one that is fallen back to.
MCFirst ==
  [defaults : {Setting(Absent, Absent), Setting("2", "low")},
   rules : {<<>>} \cup {<<r>> : r \in MCRules} \cup {<<r, s>> : r, s \in MCRules},
   allowed : {{}, {"high", "low"}}, effort_map : {MaxMappedTo("HIGH")}]

MCSecond ==
  [defaults : {Setting(Absent, Absent), Setting("1", "max")}, rules : {<<>>},
   allowed : {{"high"}, {"medium", "low"}}, effort_map : {MaxMappedTo(Absent), MaxMappedTo("HIGH ")}]

MCSelections == {<<p>> : p \in MCSecond} \cup {<<p, q>> : p \in MCFirst, q \in MCSecond}

=============================================================================
