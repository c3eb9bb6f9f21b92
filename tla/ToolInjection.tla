--------------------------- MODULE ToolInjection ---------------------------
(* injectTools (tool_injection.go): the hosted tools the proxy adds to a        *)
(* request for a response, unless the token's plan or the requested model has   *)
(* no use for them.  A request is the record of what the code reads of it:      *)
(*   json    whether the body is a JSON object; if not, nothing else is read    *)
(*   type    "absent", "create" (response.create) or "other", null included     *)
(*   model   "absent", "plain", or "spark" for a name that ends so              *)
(*   input   whether there is an input field                                    *)
(*   tools   [kind, list]: kind "absent", "null", "bad" (not an array) or       *)
(*           "list" with the types of its tools, "" for a tool without type     *)
(* Case and white space of plan and model, which the code ignores, are not      *)
(* modelled; neither is the order of the fields, which re-encoding changes.     *)
EXTENDS Naturals, Sequences, SequencesExt

RequestShapes ==
    [json : BOOLEAN, type : {"absent", "create", "other"}, model : {"absent", "plain", "spark"},
     input : BOOLEAN, tools : [kind : {"absent", "null", "bad", "list"}, list : Seq(STRING)]]

\* defaultResponseToolInjections
DefaultInjections ==
    <<[toolType |-> "image", skipPlans |-> {"free"}, skipModels |-> {"spark"}]>>

skipsPlan(addition, plan) == plan # "" /\ plan \in addition.skipPlans

skipsModel(addition, model) == model \in addition.skipModels

\* With a type it must be response.create; without one, a known field will do.
canInjectResponseTools(q) ==
    IF q.type # "absent"
    THEN q.type = "create"
    ELSE q.tools.kind # "absent" \/ q.model # "absent" \/ q.input

filterResponseToolInjections(q, additions, plan) ==
    FoldLeft(LAMBDA filtered, a : IF skipsPlan(a, plan) \/ skipsModel(a, q.model) THEN filtered
                                  ELSE Append(filtered, a),
             <<>>, additions)

\* Only a tool of a type that was not seen, in the request or just now.
appendMissingTools(tools, additions) ==
    FoldLeft(LAMBDA list, a : IF Contains(list, a.toolType) THEN list
                              ELSE Append(list, a.toolType),
             tools, additions)

ToolTypes(additions) == [i \in DOMAIN additions |-> additions[i].toolType]

injectTools(q, additions, plan) ==
    LET wanted == filterResponseToolInjections(q, additions, plan)
        with(tools) == [q EXCEPT !.tools = [kind |-> "list", list |-> tools]]
    IN IF ~q.json \/ ~canInjectResponseTools(q) \/ wanted = <<>> THEN q
       ELSE CASE q.tools.kind \in {"absent", "null"} -> with(ToolTypes(wanted))
              [] q.tools.kind = "list" -> with(appendMissingTools(q.tools.list, wanted))
              [] OTHER -> q

injectResponseTools(q, plan) == injectTools(q, DefaultInjections, plan)
=============================================================================
