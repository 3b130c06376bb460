---------------------------- MODULE PipelineProofs ----------------------------
(***************************************************************************)
(* What a message is when it arrives, for any number of Engines, queues    *)
(* and profiles: an answer is read as it was given, and a dead letter as   *)
(* it was taken.  Both are about applications whose functions answer to    *)
(* other queues than the dead letter queue.                                *)
(***************************************************************************)
EXTENDS Pipeline, TLAPS

AnswersElsewhere == \A e \in Engines : OutputQueue[e] # DeadLetterQueue

-----------------------------------------------------------------------------
(* The handlers *)

ProfileOK(p) ==
    /\ p.serializer \in {"none", "json", "msgpack"}
    /\ p.model_handler \in {"none", "pydantic", "parser", "list"}
    /\ p.data_model \in BOOLEAN
    /\ p.batch \in BOOLEAN

\* A value is the record of its three parts.
LEMMA ValueParts ==
    ASSUME NEW v \in Values
    PROVE  /\ v = Value(v.form, v.shape, v.content)
           /\ v.form \in Bytes \union {"python", "model"}
           /\ v.shape \in {"object", "list", "other"}
           /\ v.content \in {"plain", "typed", "text", "opaque"}
           /\ v.form \in Bytes => v.content # "typed"
BY DEF Values, Value

LEMMA ValueIs ==
    ASSUME NEW f \in Bytes \union {"python", "model"},
           NEW s \in {"object", "list", "other"},
           NEW c \in {"plain", "typed", "text", "opaque"},
           f \in Bytes => c # "typed"
    PROVE  /\ Value(f, s, c) \in Values
           /\ Value(f, s, c).form = f
           /\ Value(f, s, c).shape = s
           /\ Value(f, s, c).content = c
BY DEF Values, Value

\* What the caller of a writer is checked for, and the exception of RoundTrip.
Writable(p, v) ==
    /\ p.data_model => v.form = "model" /\ v.shape = "object"
    /\ p.model_handler = "none" /\ p.serializer # "none" => v.form = "python"

ReadBack(r, v) == IF r.batch THEN [AsText(v) EXCEPT !.shape = "list"] ELSE AsText(v)

\* What a writer puts into a queue, in terms of the parts of what it is given.
Text(c) == IF c = "typed" THEN "text" ELSE c

LEMMA AsTextIs ==
    ASSUME NEW v \in Values
    PROVE  AsText(v) = Value(v.form, v.shape, Text(v.content))
BY DEF AsText, Values, Value, Text

\* A writer without models: its serializer writes the plain value, or none the bytes.
LEMMA WrittenPlain ==
    ASSUME NEW p, ProfileOK(p), NEW v \in Values, Writable(p, v),
           p.model_handler = "none",
           model_message_handler(p, v).form \in Bytes
    PROVE  \/ /\ p.serializer = "none" /\ v.form \in Bytes
              /\ model_message_handler(p, v) = v
           \/ /\ p.serializer # "none" /\ v.form = "python"
              /\ model_message_handler(p, v)
                     = Value(p.serializer, v.shape, Text(v.content))
<1>1. v # Raised /\ "raised" \notin Bytes
  BY DEF Raised, Value, Values, Bytes
<1>2. model_message_handler(p, v) = serialize(p.serializer, v)
  BY <1>1 DEF model_message_handler
<1>3. CASE p.serializer = "none"
  BY <1>2, <1>3 DEF serialize
<1>4. CASE p.serializer = "json"
  <2>1. v.form = "python"
    BY <1>4 DEF Writable
  <2>2. serialize(p.serializer, v) = Value("json", v.shape, Text(v.content))
    BY <1>4, <2>1 DEF serialize, dumps, AsText, As, Values, Value, Text
  <2> QED
    BY <1>2, <1>4, <2>1, <2>2
<1>5. CASE p.serializer = "msgpack"
  <2>1. v.form = "python" /\ v.form \notin Bytes
    BY <1>5 DEF Writable, Bytes
  <2>2. v.content # "typed"
    BY <1>1, <1>2, <1>5, <2>1 DEF serialize, packb, Raised, Value
  <2>3. serialize(p.serializer, v) = Value("msgpack", v.shape, Text(v.content))
    BY <1>5, <2>1, <2>2 DEF serialize, packb, As, Values, Value, Text
  <2> QED
    BY <1>2, <1>5, <2>1, <2>3
<1> QED
  BY <1>3, <1>4, <1>5 DEF ProfileOK

\* A writer of models: one object, in its encoding.
LEMMA WrittenModel ==
    ASSUME NEW p, ProfileOK(p), NEW v \in Values, Writable(p, v),
           p.model_handler # "none", p.data_model,
           p.model_handler = "parser" => p.serializer = "none",
           model_message_handler(p, v).form \in Bytes
    PROVE  /\ v.form = "model" /\ v.shape = "object"
           /\ encoding(p) \in {"json", "msgpack"}
           /\ model_message_handler(p, v)
                  = Value(encoding(p), "object", Text(v.content))
<1>1. v.form = "model" /\ v.shape = "object"
  BY DEF Writable
<1>2. "raised" \notin Bytes /\ Raised.form = "raised" /\ "python" \notin Bytes
  BY DEF Raised, Value, Bytes
<1>3. CASE p.model_handler = "list"
  <2>1. deconstruct(p.model_handler, v) = Raised
    BY <1>1, <1>3 DEF deconstruct, shape
  <2>2. model_message_handler(p, v) = Raised
    BY <1>3, <2>1 DEF model_message_handler
  <2> QED
    BY <1>2, <2>2
<1>4. CASE p.model_handler = "parser"
  <2>1. deconstruct(p.model_handler, v) = Value("json", "object", Text(v.content))
    BY <1>1, <1>4 DEF deconstruct, shape, raw, As, AsText, Text, Values, Value
  <2>2. Value("json", "object", Text(v.content)) # Raised
    BY DEF Raised, Value
  <2>3. model_message_handler(p, v) = Value("json", "object", Text(v.content))
    BY <1>4, <2>1, <2>2 DEF model_message_handler, serialize
  <2> QED
    BY <1>1, <1>4, <2>3 DEF encoding
<1>5. CASE p.model_handler = "pydantic"
  <2> DEFINE d == Value("python", "object", v.content)
  <2>1. deconstruct(p.model_handler, v) = d
    BY <1>1, <1>5 DEF deconstruct, shape, raw, As, Values, Value
  <2>2. d # Raised
    BY DEF Raised, Value
  <2>3. model_message_handler(p, v) = serialize(p.serializer, d)
    BY <1>5, <2>1, <2>2 DEF model_message_handler
  <2>4. d \in Values /\ d.form = "python" /\ d.shape = "object" /\ d.content = v.content
    <3>1. "python" \notin Bytes
      BY DEF Bytes
    <3> QED
      BY <3>1, ValueParts, ValueIs
  <2> HIDE DEF d
  <2>5. CASE p.serializer = "none"
    <3>1. model_message_handler(p, v).form = "python"
      BY <2>3, <2>4, <2>5 DEF serialize
    <3> QED
      BY <1>2, <3>1
  <2>6. CASE p.serializer = "json"
    <3>1. serialize(p.serializer, d) = Value("json", "object", Text(v.content))
      BY <2>4, <2>6 DEF serialize, dumps, AsText, As, Values, Value, Text
    <3> QED
      BY <1>1, <1>5, <2>3, <2>6, <3>1 DEF encoding
  <2>7. CASE p.serializer = "msgpack"
    <3>1. d.content # "typed"
      BY <1>2, <2>3, <2>4, <2>7 DEF serialize, packb
    <3>2. serialize(p.serializer, d) = Value("msgpack", "object", Text(v.content))
      <4>1. serialize(p.serializer, d) = As("msgpack", d)
        BY <1>2, <2>4, <2>7, <3>1 DEF serialize, packb
      <4>2. As("msgpack", d) = Value("msgpack", "object", v.content)
        BY <2>4 DEF As, Values, Value
      <4> QED
        BY <2>4, <3>1, <4>1, <4>2 DEF Text
    <3> QED
      BY <1>1, <1>5, <2>3, <2>7, <3>2 DEF encoding
  <2> QED
    BY <2>5, <2>6, <2>7 DEF ProfileOK
<1> QED
  BY <1>3, <1>4, <1>5 DEF ProfileOK

\* A reader without models gets back what is written without.
LEMMA ReadPlain ==
    ASSUME NEW r, ProfileOK(r), NEW w \in Values, r.model_handler = "none",
           r.serializer = "none" \/ w.form = r.serializer
    PROVE  message_model_handler(r, w) =
             [value |-> IF r.serializer = "none"
                        THEN w ELSE Value("python", w.shape, w.content),
              status |-> TRUE]
<1> DEFINE d == IF r.serializer = "none"
                THEN w ELSE Value("python", w.shape, w.content)
<1>1. deserialize(r.serializer, w) = d
  BY DEF deserialize, As, Values, Value
<1>2. d # Raised
  BY DEF Raised, Value, Values, Bytes
<1> HIDE DEF d
<1>3. message_model_handler(r, w) = [value |-> d, status |-> TRUE]
  BY <1>1, <1>2 DEF message_model_handler
<1> QED
  BY <1>3 DEF d

\* A reader of models makes one of an object in its encoding, or of a list of them.
LEMMA ReadModel ==
    ASSUME NEW r, ProfileOK(r), NEW w \in Values, r.model_handler # "none",
           r.data_model, w.form = encoding(r), encoding(r) \in {"json", "msgpack"},
           r.model_handler = "parser" => r.serializer = "none",
           w.shape = shape(r.model_handler)
    PROVE  message_model_handler(r, w) =
             [value |-> Value("model", w.shape, w.content), status |-> TRUE]
<1> DEFINE d == IF r.model_handler = "parser" THEN w
                ELSE Value("python", w.shape, w.content)
           m == Value("model", w.shape, w.content)
<1>1. deserialize(r.serializer, w) = d
  BY DEF deserialize, encoding, As, Values, Value
<1>2. d # Raised /\ m # Raised
  BY DEF Raised, Value, Values, Bytes
<1>3. /\ d.form = raw(r.model_handler)
      /\ d.shape = shape(r.model_handler)
      /\ As("model", d) = m
  BY DEF raw, encoding, As, Values, Value
<1> HIDE DEF d, m
<1>4. construct(r.model_handler, r.data_model, d) = m
  BY <1>3 DEF construct
<1>5. message_model_handler(r, w) = [value |-> m, status |-> TRUE]
  BY <1>1, <1>2, <1>4 DEF message_model_handler
<1> QED
  BY <1>5 DEF m

\* What agrees, reads back what was written.
LEMMA ReadsBack ==
    ASSUME NEW p, ProfileOK(p), NEW r, ProfileOK(r), Agree(p, r),
           NEW v \in Values, Writable(p, v),
           model_message_handler(p, v).form \in Bytes
    PROVE  message_model_handler(r, consume(r, model_message_handler(p, v)))
               = [value |-> ReadBack(r, v), status |-> TRUE]
<1> DEFINE w == model_message_handler(p, v)
           t == Text(v.content)
<1>1. t \in {"plain", "text", "opaque"} /\ (v.content # "typed" => t = v.content)
  BY ValueParts DEF Text
<1>2. /\ encoding(p) = encoding(r)
      /\ p.data_model = r.data_model
      /\ r.batch <=> r.model_handler = "list"
      /\ r.batch => encoding(r) = "json"
      /\ p.data_model <=> p.model_handler # "none"
      /\ r.data_model <=> r.model_handler # "none"
      /\ p.model_handler = "parser" => p.serializer = "none"
      /\ r.model_handler = "parser" => r.serializer = "none"
  BY DEF Agree, ProfileOK
<1>3. AsText(v) = Value(v.form, v.shape, t)
  BY AsTextIs
<1>4. CASE p.model_handler = "none"
  <2>1. r.model_handler = "none" /\ ~r.batch /\ r.serializer = p.serializer
    BY <1>2, <1>4 DEF encoding, ProfileOK
  <2>2. consume(r, w) = w /\ ReadBack(r, v) = AsText(v)
    BY <2>1 DEF consume, ReadBack, ProfileOK
  <2>3. CASE p.serializer = "none"
    <3>1. w = v /\ v.form \in Bytes
      BY <1>4, <2>3, WrittenPlain
    <3>2. AsText(v) = v
      BY <3>1, ValueParts DEF AsText
    <3>3. message_model_handler(r, v) = [value |-> v, status |-> TRUE]
      BY <2>1, <2>3, ReadPlain
    <3> QED
      BY <2>2, <3>1, <3>2, <3>3
  <2>4. CASE p.serializer # "none"
    <3>1. w = Value(p.serializer, v.shape, t) /\ v.form = "python"
      BY <1>4, <2>4, WrittenPlain
    <3>2. p.serializer \in Bytes
      BY <2>4 DEF ProfileOK, Bytes
    <3>3. /\ w \in Values /\ w.form = p.serializer
          /\ w.shape = v.shape /\ w.content = t
      <4> HIDE DEF t
      <4> QED
        BY <1>1, <3>1, <3>2, ValueParts, ValueIs
    <3> HIDE DEF w, t
    <3>4. message_model_handler(r, w)
              = [value |-> Value("python", v.shape, t), status |-> TRUE]
      BY <2>1, <2>4, <3>3, ReadPlain
    <3> QED
      BY <1>3, <2>2, <3>1, <3>4 DEF w
  <2> QED
    BY <2>3, <2>4
<1>5. CASE p.model_handler # "none"
  <2>1. /\ v.form = "model" /\ v.shape = "object"
        /\ encoding(p) \in {"json", "msgpack"}
        /\ w = Value(encoding(p), "object", t)
    BY <1>2, <1>5, WrittenModel DEF ProfileOK
  <2>2. r.model_handler # "none" /\ r.data_model
    BY <1>2, <1>5 DEF ProfileOK
  <2>3. encoding(p) \in Bytes
    BY <2>1 DEF Bytes
  <2> HIDE DEF w, t
  <2>4. CASE ~r.batch
    <3>1. consume(r, w) = w /\ ReadBack(r, v) = Value("model", "object", t)
      BY <1>3, <2>1, <2>4 DEF consume, ReadBack
    <3>2. shape(r.model_handler) = "object"
      BY <1>2, <2>4 DEF shape
    <3>3. /\ w \in Values /\ w.form = encoding(r)
          /\ w.shape = "object" /\ w.content = t
      BY <1>1, <1>2, <2>1, <2>3, ValueIs
    <3>4. message_model_handler(r, w)
              = [value |-> Value("model", "object", t), status |-> TRUE]
      BY <1>2, <2>1, <2>2, <3>2, <3>3, ReadModel
    <3> QED
      BY <3>1, <3>4 DEF w
  <2>5. CASE r.batch
    <3> DEFINE l == Value("json", "list", t)
    <3>1. w = Value("json", "object", t) /\ encoding(r) = "json"
      BY <1>2, <2>1, <2>5
    <3>2. consume(r, w) = l
      BY <2>5, <3>1 DEF consume, Value
    <3>3. ReadBack(r, v) = Value("model", "list", t)
      BY <1>3, <2>1, <2>5 DEF ReadBack, Value
    <3>4. shape(r.model_handler) = "list"
      BY <1>2, <2>5 DEF shape
    <3>5. l \in Values /\ l.form = "json" /\ l.shape = "list" /\ l.content = t
      BY <1>1, ValueIs DEF Bytes
    <3> HIDE DEF l
    <3>6. message_model_handler(r, l)
              = [value |-> Value("model", "list", t), status |-> TRUE]
      BY <1>2, <2>2, <3>1, <3>4, <3>5, ReadModel
    <3> QED
      BY <3>2, <3>3, <3>6 DEF w
  <2> QED
    BY <2>4, <2>5 DEF ProfileOK
<1> QED
  BY <1>4, <1>5

-----------------------------------------------------------------------------
(* Types, and what the parts of the state say of each other *)

TypeOK ==
    /\ profile \in [Engines -> [Queues -> Profiles]]
    /\ at \in {"queue", "work", "produce", "done", "crashed", "failed"}
    /\ engine \in Engines \union {Nowhere}
    /\ at # "queue" => engine \in Engines
    /\ queue \in Queues
    /\ value \in Values
    /\ taken \in Values
    /\ taken.form \in Bytes
    /\ at = "queue" => value.form \in Bytes

LEMMA ProfileType ==
    ASSUME TypeOK, NEW e \in Engines, NEW q \in Queues
    PROVE  profile[e][q] \in Profiles /\ ProfileOK(profile[e][q])
<1>1. profile[e][q] \in Profiles
  BY DEF TypeOK
<1> QED
  BY <1>1, PipelineAssumption DEF ProfileOK

\* What is read is bytes.
LEMMA ConsumeType ==
    ASSUME NEW p, ProfileOK(p), NEW v \in Values, v.form \in Bytes
    PROVE  consume(p, v) \in Values /\ consume(p, v).form \in Bytes
<1>1. CASE ~p.batch
  BY <1>1 DEF consume
<1>2. CASE p.batch /\ v.form # "json"
  <2>1. consume(p, v) = Value("noise", "other", "opaque")
    BY <1>2 DEF consume
  <2> QED
    BY <2>1, ValueIs DEF Bytes
<1>3. CASE p.batch /\ v.form = "json"
  <2> DEFINE s == IF v.shape = "object" THEN "list" ELSE "other"
  <2>1. consume(p, v) = Value("json", s, v.content)
    BY <1>3 DEF consume, Values, Value
  <2>2. v.content \in {"plain", "text", "opaque"} /\ "json" \in Bytes
    BY ValueParts DEF Bytes
  <2> QED
    BY <2>1, <2>2, ValueIs
<1> QED
  BY <1>1, <1>2, <1>3 DEF ProfileOK

\* What the handlers do not raise is a value.
LEMMA HandledType ==
    ASSUME NEW p, ProfileOK(p), NEW v \in Values
    PROVE  /\ message_model_handler(p, v).value \in Values
           /\ message_model_handler(p, v).status \in BOOLEAN
           /\ ~message_model_handler(p, v).status
                 => message_model_handler(p, v).value = v
<1> DEFINE d == deserialize(p.serializer, v)
           m == IF p.model_handler = "none" \/ d = Raised THEN d
                ELSE construct(p.model_handler, p.data_model, d)
<1>1. message_model_handler(p, v) = IF m = Raised
                                    THEN [value |-> v, status |-> FALSE]
                                    ELSE [value |-> m, status |-> TRUE]
  BY DEF message_model_handler
<1>2. d \in Values \union {Raised}
  BY DEF deserialize, As, Values, Bytes, ProfileOK
<1> HIDE DEF d
<1>3. construct(p.model_handler, p.data_model, d) \in Values \union {Raised}
  BY <1>2 DEF construct, As, Values, Bytes, Raised, Value, raw
<1>4. m \in Values \union {Raised}
  BY <1>2, <1>3
<1> HIDE DEF m
<1> QED
  BY <1>1, <1>4

LEMMA WrittenType ==
    ASSUME NEW p, ProfileOK(p), NEW v \in Values,
           model_message_handler(p, v).form \in Bytes
    PROVE  model_message_handler(p, v) \in Values
<1> DEFINE d == IF p.model_handler = "none" THEN v
                ELSE deconstruct(p.model_handler, v)
<1>1. model_message_handler(p, v)
          = IF d = Raised THEN Raised ELSE serialize(p.serializer, d)
  BY DEF model_message_handler
<1>2. Raised.form \notin Bytes
  BY DEF Raised, Value, Bytes
<1>3. d \in Values \union {Raised}
  BY DEF deconstruct, As, AsText, raw, Values, Bytes
<1> HIDE DEF d
<1>4. model_message_handler(p, v) = serialize(p.serializer, d) /\ d \in Values
  BY <1>1, <1>2, <1>3
<1>5. CASE p.serializer = "none"
  BY <1>4, <1>5 DEF serialize
<1>6. CASE p.serializer = "json"
  BY <1>4, <1>6 DEF serialize, dumps, As, AsText, Values, Value, Bytes
<1>7. CASE p.serializer = "msgpack"
  <2>1. serialize(p.serializer, d) \in Values \union {Raised}
    BY <1>4, <1>7 DEF serialize, packb, As, Values, Value, Bytes
  <2> QED
    BY <1>2, <1>4, <2>1
<1> QED
  BY <1>5, <1>6, <1>7 DEF ProfileOK

-----------------------------------------------------------------------------
(* The way of a message *)

\* A dead letter is what was taken, on its way to its queue and, if that has no
\* serializer, in it; it fails only for what that queue asks of it.
DeadLetterInv ==
    queue = DeadLetterQueue =>
        /\ at = "produce" => value = taken
        /\ LET p == profile[engine][DeadLetterQueue]
           IN  /\ at = "queue" /\ p.serializer = "none" => value = taken
               /\ at \in {"crashed", "failed"} => p.data_model \/ p.model_handler # "none"

Sender == profile[sent.engine][sent.queue]

\* The last answer of a function, until another Engine takes it, is with the
\* Engine that gave it, as it is or as it was written.
AnswerInv ==
    sent # Unsent =>
        /\ sent.engine \in Engines
        /\ sent.queue = OutputQueue[sent.engine]
        /\ sent.queue \in Queues
        /\ sent.value \in Values
        /\ at = "produce" /\ queue = sent.queue =>
              engine = sent.engine /\ value = sent.value
        /\ at = "queue" /\ queue = sent.queue =>
              /\ engine = sent.engine
              /\ Sender.data_model => sent.value.form = "model" /\ sent.value.shape = "object"
              /\ model_message_handler(Sender, sent.value).form \in Bytes
              /\ value = model_message_handler(Sender, sent.value)

LEMMA UnsentParts == Raised.form \notin Bytes
BY DEF Raised, Value, Bytes

LEMMA PipelineInit == Init => TypeOK /\ DeadLetterInv /\ AnswerInv /\ RoundTrip
<1> SUFFICES ASSUME Init PROVE TypeOK /\ DeadLetterInv /\ AnswerInv /\ RoundTrip
  OBVIOUS
<1>1. value \in Values /\ value.form \in Bytes
  BY PipelineAssumption DEF Init
<1>2. TypeOK
  BY <1>1, PipelineAssumption DEF Init, TypeOK
<1>3. DeadLetterInv
  BY DEF Init, DeadLetterInv
<1> QED
  BY <1>2, <1>3 DEF Init, AnswerInv, RoundTrip

LEMMA PipelineTypes ==
    ASSUME TypeOK, [Next]_vars
    PROVE  TypeOK'
<1>1. ASSUME NEW e \in Engines, Handle(e) PROVE TypeOK'
  <2> DEFINE p == profile[e][queue]
             h == message_model_handler(p, taken')
  <2>1. queue \in Queues
    BY <1>1, PipelineAssumption DEF Handle
  <2>2. ProfileOK(p)
    BY <2>1, ProfileType
  <2>3. taken' = consume(p, value) /\ value \in Values /\ value.form \in Bytes
    BY <1>1 DEF Handle, TypeOK
  <2>4. /\ value' = h.value /\ engine' = e /\ at' \in {"work", "produce"}
        /\ queue' \in {queue, DeadLetterQueue}
        /\ UNCHANGED <<profile, sent>>
    BY <1>1 DEF Handle
  <2> HIDE DEF p
  <2>5. taken' \in Values /\ taken'.form \in Bytes
    BY <2>2, <2>3, ConsumeType
  <2>6. h.value \in Values
    BY <2>2, <2>5, HandledType
  <2> HIDE DEF h
  <2> QED
    BY <2>1, <2>4, <2>5, <2>6, PipelineAssumption DEF TypeOK
<1>2. ASSUME NEW answer \in Answers \union {value}, Work(answer) PROVE TypeOK'
  <2>1. answer \in Values
    BY PipelineAssumption DEF TypeOK
  <2>2. engine \in Engines
    BY <1>2 DEF Work, TypeOK
  <2>3. OutputQueue[engine] \in Queues
    BY <1>2, <2>2, PipelineAssumption DEF Work
  <2> QED
    BY <1>2, <2>1, <2>2, <2>3 DEF Work, TypeOK
<1>3. CASE Finish \/ ObjectRefused \/ OutputFails
  BY <1>3 DEF Finish, ObjectRefused, OutputFails, TypeOK
<1>4. CASE Output
  <2> DEFINE p == profile[engine][queue]
             w == model_message_handler(p, value)
  <2>1. w.form \in Bytes /\ value' = w /\ at' = "queue"
        /\ UNCHANGED <<profile, engine, queue, taken, sent>>
    BY <1>4 DEF Output
  <2>2. engine \in Engines /\ value \in Values
    BY <1>4 DEF Output, TypeOK
  <2>3. w \in Values
    <3>1. queue \in Queues
      BY DEF TypeOK
    <3> QED
      BY <2>1, <2>2, <3>1, ProfileType, WrittenType
  <2> HIDE DEF w
  <2> QED
    BY <2>1, <2>2, <2>3 DEF TypeOK
<1>5. CASE UNCHANGED vars
  BY <1>5 DEF vars, TypeOK
<1> QED
  BY <1>1, <1>2, <1>3, <1>4, <1>5 DEF Next

LEMMA DeadLetterStep ==
    ASSUME AnswersElsewhere, TypeOK, DeadLetterInv, [Next]_vars
    PROVE  DeadLetterInv'
<1>1. ASSUME NEW e \in Engines, Handle(e) PROVE DeadLetterInv'
  <2> DEFINE p == profile[e][queue]
             h == message_model_handler(p, taken')
  <2>1. queue \in Queues
    BY DEF TypeOK
  <2>2. ProfileOK(p)
    BY <2>1, ProfileType
  <2>3. /\ taken' = consume(p, value) /\ value' = h.value
        /\ at' = IF h.status THEN "work" ELSE "produce"
        /\ value \in Values /\ value.form \in Bytes
    BY <1>1 DEF Handle, TypeOK
  <2> HIDE DEF p
  <2>4. taken' \in Values
    BY <2>2, <2>3, ConsumeType
  <2>5. at' = "produce" => value' = taken'
    BY <2>2, <2>3, <2>4, HandledType
  <2> QED
    BY <2>3, <2>5 DEF DeadLetterInv
<1>2. ASSUME NEW answer \in Answers \union {value}, Work(answer) PROVE DeadLetterInv'
  <2>1. engine \in Engines /\ queue' = OutputQueue[engine]
    BY <1>2 DEF Work, TypeOK
  <2> QED
    BY <2>1 DEF AnswersElsewhere, DeadLetterInv
<1>3. CASE Finish
  BY <1>3 DEF Finish, DeadLetterInv
<1>4. CASE ObjectRefused
  BY <1>4 DEF ObjectRefused, IsInstance, DeadLetterInv
<1>5. CASE OutputFails \/ Output
  <2> DEFINE p == profile[engine][queue]
             w == model_message_handler(p, value)
  <2>1. /\ at = "produce" /\ UNCHANGED <<profile, engine, queue, taken, sent>>
        /\ (at' = "failed" /\ w.form \notin Bytes)
              \/ (at' = "queue" /\ w.form \in Bytes /\ value' = w)
    BY <1>5 DEF Output, OutputFails
  <2> SUFFICES ASSUME queue = DeadLetterQueue
               PROVE  DeadLetterInv'
    BY <2>1 DEF DeadLetterInv
  <2>2. value = taken /\ value \in Values /\ value.form \in Bytes
    BY <2>1 DEF DeadLetterInv, TypeOK
  <2>3. ProfileOK(p)
    <3>1. engine \in Engines /\ queue \in Queues
      BY <2>1 DEF TypeOK
    <3> QED
      BY <3>1, ProfileType
  <2>4. ASSUME p.model_handler = "none"
        PROVE  w.form \in Bytes /\ (p.serializer = "none" => w = value)
    <3>1. value # Raised
      BY <2>2, UnsentParts
    <3>2. w = serialize(p.serializer, value)
      BY <2>4, <3>1 DEF model_message_handler
    <3>3. CASE p.serializer = "none"
      BY <2>2, <3>2, <3>3 DEF serialize
    <3>4. CASE p.serializer = "json"
      <4>1. w = Value("json", "other", "opaque")
        BY <2>2, <3>2, <3>4 DEF serialize, dumps, Bytes
      <4> QED
        BY <3>4, <4>1 DEF Value, Bytes
    <3>5. CASE p.serializer = "msgpack"
      <4>1. w = Value("msgpack", "other", "opaque")
        BY <2>2, <3>2, <3>5 DEF serialize, packb, Bytes
      <4> QED
        BY <3>5, <4>1 DEF Value, Bytes
    <3> QED
      BY <2>3, <3>3, <3>4, <3>5 DEF ProfileOK
  <2>5. ASSUME p.model_handler # "none"
        PROVE  w.form \notin Bytes
    <3>1. deconstruct(p.model_handler, value) = Raised
      BY <2>2 DEF deconstruct, Bytes
    <3>2. w = Raised
      BY <2>5, <3>1 DEF model_message_handler
    <3> QED
      BY <3>2, UnsentParts
  <2> HIDE DEF w
  <2>6. at' = "queue" /\ p.serializer = "none" => value' = value
    BY <2>1, <2>4, <2>5
  <2>7. at' = "failed" => p.model_handler # "none"
    BY <2>1, <2>4
  <2>8. profile'[engine'][DeadLetterQueue] = p
    BY <2>1
  <2> HIDE DEF p
  <2> QED
    BY <2>1, <2>2, <2>6, <2>7, <2>8 DEF DeadLetterInv
<1>6. CASE UNCHANGED vars
  BY <1>6 DEF vars, DeadLetterInv
<1> QED
  BY <1>1, <1>2, <1>3, <1>4, <1>5, <1>6 DEF Next

\* An Engine that takes the answer of another, and agrees with it, gets it.
LEMMA Taken ==
    ASSUME TypeOK, AnswerInv, NEW e \in Engines, Handle(e), sent # Unsent,
           e # sent.engine, sent.queue = InputQueue[e],
           Agree(Sender, profile[e][sent.queue]),
           Sender.model_handler = "none" /\ Sender.serializer # "none"
               => sent.value.form = "python"
    PROVE  at' = "work" /\ value' = ReadBack(profile[e][sent.queue], sent.value)
<1> DEFINE r == profile[e][sent.queue]
           v == sent.value
           w == model_message_handler(Sender, v)
<1>1. at = "queue" /\ queue = InputQueue[e] /\ queue = sent.queue
  BY DEF Handle
<1>2. /\ sent.engine \in Engines /\ sent.queue \in Queues /\ v \in Values
      /\ Sender.data_model => v.form = "model" /\ v.shape = "object"
      /\ w.form \in Bytes
      /\ value = w
  BY <1>1 DEF AnswerInv
<1>3. ProfileOK(r) /\ ProfileOK(Sender)
  BY <1>2, ProfileType DEF Sender
<1>4. Writable(Sender, v)
  BY <1>2 DEF Writable
<1>5. /\ taken' = consume(r, w)
      /\ value' = message_model_handler(r, taken').value
      /\ message_model_handler(r, taken').status => at' = "work"
  BY <1>1, <1>2 DEF Handle
<1>6. message_model_handler(r, consume(r, w)) = [value |-> ReadBack(r, v), status |-> TRUE]
  BY <1>2, <1>3, <1>4, ReadsBack
<1> HIDE DEF r, v, w
<1>7. value' = ReadBack(r, v) /\ at' = "work"
  BY <1>5, <1>6
<1> QED
  BY <1>7 DEF r, v

LEMMA AnswerStep ==
    ASSUME AnswersElsewhere, TypeOK, AnswerInv, RoundTrip, [Next]_vars
    PROVE  AnswerInv' /\ RoundTrip'
<1>1. ASSUME NEW e \in Engines, Handle(e) PROVE AnswerInv' /\ RoundTrip'
  <2>1. /\ UNCHANGED <<profile, sent>> /\ engine' = e
        /\ at' = "work" \/ (at' = "produce" /\ queue' = DeadLetterQueue)
    BY <1>1 DEF Handle
  <2>2. AnswerInv'
    BY <2>1 DEF AnswerInv, AnswersElsewhere
  <2>3. ASSUME sent # Unsent, e # sent.engine, sent.queue = InputQueue[e],
               Agree(Sender, profile[e][sent.queue]),
               Sender.model_handler = "none" /\ Sender.serializer # "none"
                   => sent.value.form = "python"
        PROVE  at' = "work" /\ value' = Expected(profile[e][sent.queue])
    BY <1>1, <2>3, Taken DEF ReadBack, Expected
  <2>4. \A r : Expected(r)' = Expected(r)
    BY <2>1 DEF Expected
  <2>5. RoundTrip'
    BY <2>1, <2>3, <2>4 DEF RoundTrip, Sender
  <2> QED
    BY <2>2, <2>5
<1>2. ASSUME NEW answer \in Answers \union {value}, Work(answer)
      PROVE  AnswerInv' /\ RoundTrip'
  <2>1. answer \in Values
    BY PipelineAssumption DEF TypeOK
  <2>2. engine \in Engines
    BY <1>2 DEF Work, TypeOK
  <2>3. OutputQueue[engine] \in Queues
    BY <1>2, <2>2, PipelineAssumption DEF Work
  <2>4. /\ sent' = [value |-> answer, engine |-> engine, queue |-> OutputQueue[engine]]
        /\ at' = "produce" /\ value' = answer /\ engine' = engine
        /\ queue' = OutputQueue[engine]
    BY <1>2 DEF Work
  <2>5. /\ sent'.value = answer /\ sent'.engine = engine
        /\ sent'.queue = OutputQueue[engine]
    BY <2>4
  <2>6. AnswerInv'
    BY <2>1, <2>2, <2>3, <2>4, <2>5 DEF AnswerInv
  <2>7. RoundTrip'
    BY <2>4, <2>5 DEF RoundTrip
  <2> QED
    BY <2>6, <2>7
<1>3. CASE Finish
  <2>1. at = "work" /\ at' = "done" /\ UNCHANGED <<profile, engine, queue, value, sent>>
    BY <1>3 DEF Finish
  <2>2. \A r : Expected(r)' = Expected(r)
    BY <2>1 DEF Expected
  <2> QED
    BY <2>1, <2>2 DEF AnswerInv, RoundTrip
<1>4. CASE ObjectRefused \/ OutputFails
  <2>1. /\ at = "produce" /\ at' \in {"crashed", "failed"}
        /\ UNCHANGED <<profile, engine, queue, value, sent>>
    BY <1>4 DEF ObjectRefused, OutputFails
  <2> QED
    BY <2>1 DEF AnswerInv, RoundTrip
<1>5. CASE Output
  <2>1. /\ at = "produce" /\ at' = "queue"
        /\ UNCHANGED <<profile, engine, queue, sent>>
        /\ IsInstance(profile[engine][queue])
        /\ value' = model_message_handler(profile[engine][queue], value)
        /\ model_message_handler(profile[engine][queue], value).form \in Bytes
    BY <1>5 DEF Output
  <2>2. AnswerInv'
    BY <2>1 DEF AnswerInv, Sender, IsInstance
  <2>3. RoundTrip'
    BY <2>1 DEF RoundTrip
  <2> QED
    BY <2>2, <2>3
<1>6. CASE UNCHANGED vars
  <2>1. \A r : Expected(r)' = Expected(r)
    BY <1>6 DEF Expected, vars
  <2> QED
    BY <1>6, <2>1 DEF vars, AnswerInv, RoundTrip, Sender
<1> QED
  BY <1>1, <1>2, <1>3, <1>4, <1>5, <1>6 DEF Next

\* What one function answers is what the function of the next Engine is given, if the
\* two ends of the queue agree: for every combination of serializers, handlers and
\* batches at each end, and every value.
THEOREM AnswersAreReadBack ==
    ASSUME AnswersElsewhere
    PROVE  Spec => []RoundTrip
<1>1. TypeOK /\ AnswerInv /\ RoundTrip /\ [Next]_vars
        => TypeOK' /\ AnswerInv' /\ RoundTrip'
  BY PipelineTypes, AnswerStep
<1> QED
  BY <1>1, PipelineInit, PTL DEF Spec

\* A message that an Engine refuses is in the dead letter queue as it was taken, or
\* that queue asks for what it is not.
THEOREM DeadLettersAreKept ==
    ASSUME AnswersElsewhere
    PROVE  Spec => []DeadLetterKept
<1>1. TypeOK /\ DeadLetterInv /\ [Next]_vars => TypeOK' /\ DeadLetterInv'
  BY PipelineTypes, DeadLetterStep
<1>2. DeadLetterInv => DeadLetterKept
  BY DEF DeadLetterInv, DeadLetterKept
<1> QED
  BY <1>1, <1>2, PipelineInit, PTL DEF Spec
=============================================================================
