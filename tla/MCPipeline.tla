------------------------------ MODULE MCPipeline ------------------------------
(***************************************************************************)
(* Two Engines, one behind the other, with a dead letter queue: the        *)
(* shipped profiles at every place of a queue, and overrides of them that  *)
(* Engine.__post_init__ accepts.                                           *)
(***************************************************************************)
EXTENDS Pipeline, TLC

CONSTANTS e1, e2, q1, q2, dlq

Inputs == (e1 :> q1) @@ (e2 :> q2)

Outputs == (e1 :> q2) @@ (e2 :> Nowhere)

Of(serializer, model_handler, data_model, batch) ==
    [serializer |-> serializer, model_handler |-> model_handler,
     data_model |-> data_model, batch |-> batch]

\* confluent, -msgpack-pydantic, -pydantic, -batch-json and -dlq; then confluent
\* without a model, or only without a data model, and -dlq with one; and the parser
\* and the reader of batches with serializers that do not go with them.
QueueProfiles ==
    { Of("json", "pydantic", TRUE, FALSE),
      Of("msgpack", "pydantic", TRUE, FALSE),
      Of("none", "parser", TRUE, FALSE),
      Of("json", "list", TRUE, TRUE),
      Of("none", "none", FALSE, FALSE),
      Of("json", "none", FALSE, FALSE),
      Of("json", "pydantic", FALSE, FALSE),
      Of("none", "none", TRUE, FALSE),
      Of("json", "parser", TRUE, FALSE),
      Of("msgpack", "list", TRUE, TRUE) }

Messages ==
    { Value("json", "object", "plain"),
      Value("json", "list", "plain"),
      Value("msgpack", "object", "plain"),
      Value("noise", "other", "plain") }

Returned ==
    { Value("model", "object", "typed"),
      Value("model", "list", "plain"),
      Value("python", "object", "typed"),
      Value("json", "object", "plain") }

\* The places where the Engines' configurations matter: each reads its queue,
\* the first writes the second's, and both write the dead letter queue alike.
MCInit ==
    /\ \E in1, out1, in2, dead \in Profiles :
          profile = (e1 :> ((q1 :> in1) @@ (q2 :> out1) @@ (dlq :> dead)))
                    @@ (e2 :> ((q1 :> in1) @@ (q2 :> in2) @@ (dlq :> dead)))
    /\ Init

MCSpec == MCInit /\ [][Next]_vars
=============================================================================
