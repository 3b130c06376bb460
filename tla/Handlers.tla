------------------------------- MODULE Handlers -------------------------------
(***************************************************************************)
(* What the serializers and the model handlers make of a message, and how  *)
(* models/base.py chains them.  A value is                                 *)
(*   - form: bytes that are JSON, MessagePack or neither ("noise"), a      *)
(*     plain Python value, or Pydantic models;                             *)
(*   - shape: an object with fields, a list of such, or anything else;     *)
(*   - content: "plain"; "typed", with a date or the like among its        *)
(*     fields, as no bytes have; "text", where that became a string;       *)
(*     "opaque", the string or the packing of a whole value.               *)
(* The data model is GenericMessage, which checks no types.                *)
(***************************************************************************)
EXTENDS Naturals

Bytes == {"json", "msgpack", "noise"}

Values == {v \in [form : Bytes \union {"python", "model"},
                  shape : {"object", "list", "other"},
                  content : {"plain", "typed", "text", "opaque"}] :
              v.form \in Bytes => v.content # "typed"}

Value(form, shape, content) == [form |-> form, shape |-> shape, content |-> content]

\* The outcome of a call that raises.
Raised == Value("raised", "other", "opaque")

\* default=str, and the dates that orjson and Pydantic write by themselves.
AsText(v) == IF v.content = "typed" THEN [v EXCEPT !.content = "text"] ELSE v

As(form, v) == [v EXCEPT !.form = form]

-----------------------------------------------------------------------------
(* serializers/ *)

\* json and orjson alike: anything that str() accepts is written, models and
\* bytes too.
dumps(v) == IF v.form = "python" THEN As("json", AsText(v))
                                 ELSE Value("json", "other", "opaque")

\* MessagePack refuses what it has no type for.
packb(v) ==
    CASE v.form = "python" /\ v.content # "typed" -> As("msgpack", v)
      [] v.form \in Bytes -> Value("msgpack", "other", "opaque")
      [] OTHER -> Raised

serialize(serializer, v) ==
    CASE serializer = "none" -> v
      [] serializer = "json" -> dumps(v)
      [] serializer = "msgpack" -> packb(v)

deserialize(serializer, v) ==
    CASE serializer = "none" -> v
      [] serializer # "none" /\ v.form = serializer -> As("python", v)
      [] OTHER -> Raised

-----------------------------------------------------------------------------
(* models/pydantic_model.py: PydanticModelHandler ("pydantic"),            *)
(* PydanticParserModelHandler ("parser") and PydanticListParser ("list")   *)

\* What each handler accepts from the serializer, and gives to it.
raw(handler) == IF handler = "parser" THEN "json" ELSE "python"

shape(handler) == IF handler = "list" THEN "list" ELSE "object"

\* schema.model_validate and its kin, where there is a schema.
construct(handler, schema, v) ==
    IF schema /\ v.form = raw(handler) /\ v.shape = shape(handler)
    THEN As("model", v)
    ELSE Raised

\* Mutant of deconstruct: every handler dumps JSON.
deconstruct_json(handler, v) ==
    IF v.form = "model" /\ v.shape = shape(handler)
    THEN As("json", AsText(v))
    ELSE Raised

\* To go through one model as through a list yields pairs, which have no
\* model_dump, nor has a list.
deconstruct(handler, v) ==
    IF v.form = "model" /\ v.shape = shape(handler)
    THEN As(raw(handler), IF handler = "parser" THEN AsText(v) ELSE v)
    ELSE Raised

-----------------------------------------------------------------------------
(* models/base.py *)

\* Mutant of message_model_handler: the deserialized message is given back.
message_of_step(p, message) ==
    LET deserialized_msg == deserialize(p.serializer, message)
        data_model == construct(p.model_handler, p.data_model, deserialized_msg)
    IN  CASE deserialized_msg = Raised -> [value |-> message, status |-> FALSE]
          [] p.model_handler = "none" -> [value |-> deserialized_msg, status |-> TRUE]
          [] data_model # Raised -> [value |-> data_model, status |-> TRUE]
          [] OTHER -> [value |-> deserialized_msg, status |-> FALSE]

message_model_handler(p, message) ==
    LET deserialized_msg == deserialize(p.serializer, message)
        data_model == IF p.model_handler = "none" \/ deserialized_msg = Raised
                      THEN deserialized_msg
                      ELSE construct(p.model_handler, p.data_model, deserialized_msg)
    IN  IF data_model = Raised
        THEN [value |-> message, status |-> FALSE]
        ELSE [value |-> data_model, status |-> TRUE]

model_message_handler(p, data_model) ==
    LET dumped == IF p.model_handler = "none" THEN data_model
                  ELSE deconstruct(p.model_handler, data_model)
    IN  IF dumped = Raised THEN Raised ELSE serialize(p.serializer, dumped)
=============================================================================
