---------------------------- MODULE ContractProofs ----------------------------
(***************************************************************************)
(* What a handler returns crosses to the consumer unchanged, for any       *)
(* payloads and other fields that an error may carry and over any number   *)
(* of relays of any version; where the fields of an unknown error collide, *)
(* its portable form is still kept.                                        *)
(***************************************************************************)
EXTENDS PasskeyContract, TLAPS

\* Before the handler has run.
Outward == {"idle", "invoke", "erased", "provide"}

\* An error as handlers and relays make them.
Sound(error) ==
  /\ error.known \in BOOLEAN
  /\ error.known => error.payload = None /\ error.extra = NoExtra
  /\ error.code \notin NonStrings
  /\ error.payload \in Values \cup {None}
  /\ error.extra \in Extras

\* What has become of the error g when it arrives as e: nothing that Unambiguous or
\* the portable form would tell, and a variant is Unknown after a relay that did not
\* know it.
Passed(g, e, f) ==
  /\ Sound(e)
  /\ e.known <=> g.known /\ f
  /\ Object(e) = Object(g)
  /\ Unambiguous(g) => e.code = g.code /\ e.payload = g.payload /\ e.extra = g.extra

\* The ways back of an error: as it is, or lost at a relay.
Arrives(result, g, f, n) ==
  \/ /\ IsDomain(result) /\ Passed(g, result.ok.err, f)
     /\ n = 0 \/ Object(g)["code"] \notin NonStrings
  \/ /\ IsErr(result)
     /\ n > 0 /\ Object(g)["code"] \in NonStrings

OutwardOK == at \in Outward => given = None /\ fluent = TRUE /\ hops = 0

\* On its way back the outcome is the two-level result of what the handler meant, as
\* the relays have left it.
BackOK ==
  at = "back" /\ given # None =>
    IF given.class = "domain"
    THEN Arrives(outcome, given.error, fluent, hops)
    ELSE outcome = TwoLevel(given)

\* The client flattens it.
ReturnedOK ==
  at = "returned" /\ given # None =>
    IF given.class = "domain"
    THEN /\ IsErr(outcome)
         /\ \/ /\ outcome.err.class = "domain"
               /\ Passed(given.error, outcome.err.error, fluent)
               /\ hops = 0 \/ Object(given.error)["code"] \notin NonStrings
            \/ /\ outcome.err.class = "runtime"
               /\ hops > 0 /\ Object(given.error)["code"] \in NonStrings
    ELSE outcome = Written("invocation_error", given)

ContractInv ==
  /\ fluent \in BOOLEAN /\ hops \in Nat
  /\ at = "provide" => ran \in Operations
  /\ at = "erased" \/ at = "invoke" => call.capability \in Operations
  /\ given # None => \E op \in Operations : given \in Meanings("nested", op)
  /\ OutwardOK /\ BackOK /\ ReturnedOK

-----------------------------------------------------------------------------
\* Errors and their objects

LEMMA NoExtraIsExtra == NoExtra \in Extras
  <1>1. NoExtra \in [{} -> Values] BY DEF NoExtra
  <1>2. {} \in SUBSET (Reserved \cup Names) OBVIOUS
  <1> QED BY <1>1, <1>2 DEF Extras

LEMMA VariantsAreSound ==
  ASSUME NEW code, code \notin NonStrings
  PROVE  Sound(Variant(code))
  BY NoExtraIsExtra DEF Sound, Variant

LEMMA UnknownsAreSound ==
  ASSUME NEW code, code \notin NonStrings, NEW payload \in Values \cup {None},
         NEW extra \in Extras
  PROVE  Sound(UnknownError(code, payload, extra))
  BY DEF Sound, UnknownError

LEMMA DomainErrorsAreSound ==
  ASSUME NEW op \in Operations, NEW error \in DomainErrorsOf(op)
  PROVE  Sound(error)
  <1>1. \A code \in Declared[op] \cup {NewCode} : code \notin NonStrings
    BY ContractAssumption
  <1>2. CASE \E code \in Declared[op] : error = Variant(code)
    BY <1>1, <1>2, VariantsAreSound
  <1>3. CASE \E code \in Declared[op] \cup {NewCode}, payload \in Values \cup {None},
                extra \in Extras : error = UnknownError(code, payload, extra)
    BY <1>1, <1>3, UnknownsAreSound
  <1> QED BY <1>2, <1>3 DEF DomainErrorsOf

\* An error has passed to itself before it has met a relay.
LEMMA PassedItself ==
  ASSUME NEW error, Sound(error)
  PROVE  Passed(error, error, TRUE)
  BY DEF Passed, Sound

\* The object of an error, entry by entry.
LEMMA ObjectEntries ==
  ASSUME NEW error, Sound(error)
  PROVE  /\ "code" \in DOMAIN Object(error)
         /\ DOMAIN Object(error)
              = {"code"} \cup (IF error.payload = None THEN {} ELSE {"payload"})
                  \cup DOMAIN error.extra
         /\ \A key \in DOMAIN Object(error) :
              Object(error)[key]
                = IF key \in DOMAIN error.extra THEN error.extra[key] ELSE error[key]
         /\ "payload" \in DOMAIN Object(error) => Object(error)["payload"] \in Values
         /\ \A key \in DOMAIN Object(error) \ Reserved : Object(error)[key] \in Values
         /\ DOMAIN Object(error) \ Reserved \subseteq Names
  <1>1. PICK keys \in SUBSET (Reserved \cup Names) : error.extra \in [keys -> Values]
    BY DEF Sound, Extras
  <1>2. error.payload \in Values \cup {None} BY DEF Sound
  <1>3. /\ DOMAIN Object(error)
             = {"code"} \cup (IF error.payload = None THEN {} ELSE {"payload"})
                 \cup DOMAIN error.extra
        /\ \A key \in DOMAIN Object(error) :
             Object(error)[key]
               = IF key \in DOMAIN error.extra THEN error.extra[key] ELSE error[key]
    BY DEF Object
  <1>4. error["payload"] = error.payload OBVIOUS
  <1>5. "payload" \in DOMAIN Object(error) => Object(error)["payload"] \in Values
    BY <1>1, <1>2, <1>3, <1>4
  <1>6. \A key \in DOMAIN Object(error) \ Reserved :
          key \in DOMAIN error.extra /\ Object(error)[key] \in Values
    BY <1>1, <1>3 DEF Reserved
  <1> QED BY <1>1, <1>3, <1>5, <1>6

\* What is made of an object has that object, and of one whose fields do not collide
\* the error itself.
LEMMA FromItsObject ==
  ASSUME NEW error, Sound(error), Object(error)["code"] \notin NonStrings
  PROVE  /\ Sound(FromObject(Object(error)))
         /\ Object(FromObject(Object(error))) = Object(error)
         /\ Unambiguous(error) =>
              /\ FromObject(Object(error)).code = error.code
              /\ FromObject(Object(error)).payload = error.payload
              /\ FromObject(Object(error)).extra = error.extra
  <1> DEFINE object == Object(error)
             rest == [key \in DOMAIN object \ Reserved |-> object[key]]
             made == FromObject(object)
  <1>1. /\ made.known = FALSE /\ made.code = object["code"]
        /\ made.payload = PayloadOf(object) /\ made.extra = rest
    BY DEF FromObject, UnknownError
  <1>2. PayloadOf(object) \in Values \cup {None} BY ObjectEntries DEF PayloadOf
  <1>3. rest \in Extras
    <2>1. rest \in [DOMAIN object \ Reserved -> Values] BY ObjectEntries
    <2>2. DOMAIN object \ Reserved \in SUBSET (Reserved \cup Names) BY ObjectEntries
    <2> QED BY <2>1, <2>2 DEF Extras
  <1>4. Sound(made) BY <1>1, <1>2, <1>3 DEF Sound
  <1>5. Object(made) = object
    <2>1. "code" \in DOMAIN object BY ObjectEntries
    <2>2. "payload" \in DOMAIN object <=> made.payload # None
      <3>1. "payload" \in DOMAIN object => object["payload"] \in Values BY ObjectEntries
      <3>2. None \notin Values BY ContractAssumption
      <3> HIDE DEF object, made
      <3> QED BY <1>1, <3>1, <3>2 DEF PayloadOf
    <2>3. DOMAIN made.extra = DOMAIN object \ Reserved BY <1>1
    <2>4. DOMAIN Object(made) = DOMAIN object
      BY <2>1, <2>2, <2>3 DEF Object, Reserved
    <2>5. ASSUME NEW key \in DOMAIN object PROVE Object(made)[key] = object[key]
      <3>1. CASE key \notin Reserved
        BY <1>1, <2>3, <2>4, <2>5, <3>1 DEF Object
      <3>2. CASE key = "code"
        BY <1>1, <2>3, <2>4, <2>5, <3>2 DEF Object, Reserved
      <3>3. CASE key = "payload"
        <4>1. Object(made)[key] = made.payload
          BY <2>3, <2>4, <2>5, <3>3 DEF Object, Reserved
        <4> QED BY <1>1, <2>5, <3>3, <4>1 DEF PayloadOf
      <3> QED BY <3>1, <3>2, <3>3 DEF Reserved
    <2>6. /\ object = [key \in DOMAIN object |-> object[key]]
          /\ Object(made) = [key \in DOMAIN Object(made) |-> Object(made)[key]]
      BY DEF Object
    <2> HIDE DEF object, made
    <2> QED BY <2>4, <2>5, <2>6
  <1>6. ASSUME Unambiguous(error)
        PROVE  /\ made.code = error.code /\ made.payload = error.payload
               /\ made.extra = error.extra
    <2>1. "code" \notin DOMAIN error.extra /\ "payload" \notin DOMAIN error.extra
      BY <1>6 DEF Unambiguous, Reserved
    <2>2. made.code = error.code
      BY <1>1, <2>1, ObjectEntries
    <2>3. made.payload = error.payload
      BY <1>1, <2>1, ObjectEntries DEF PayloadOf
    <2>4. DOMAIN object \ Reserved = DOMAIN error.extra
      BY <2>1, ObjectEntries DEF Reserved
    <2>5. PICK keys : error.extra \in [keys -> Values] BY DEF Sound, Extras
    <2>6. rest = [key \in DOMAIN error.extra |-> error.extra[key]]
      BY <2>4, ObjectEntries
    <2>7. error.extra = [key \in DOMAIN error.extra |-> error.extra[key]] BY <2>5
    <2> QED BY <1>1, <2>2, <2>3, <2>6, <2>7
  <1> QED BY <1>4, <1>5, <1>6

\* One relay: an error goes on as it passed, if it can.
LEMMA RelayedError ==
  ASSUME NEW g, NEW e, NEW f \in BOOLEAN, NEW known, Passed(g, e, f)
  PROVE  /\ Decodable(Encode(e)) => Passed(g, Decode(Encode(e), known), f /\ e.code \in known)
         /\ ~Decodable(Encode(e)) => Object(g)["code"] \in NonStrings
         /\ Decodable(Encode(e)) => Object(g)["code"] \notin NonStrings
  <1>1. Sound(e) /\ Object(e) = Object(g) /\ e.known \in BOOLEAN BY DEF Passed, Sound
  <1>2. CASE e.known
    <2>1. /\ e.payload = None /\ e.extra = NoExtra /\ e.code \notin NonStrings
      BY <1>1, <1>2 DEF Sound
    <2>2. Decodable(Encode(e)) BY <1>2 DEF Decodable, Encode
    <2> DEFINE d == Decode(Encode(e), known)
    <2>3. /\ d.known \in BOOLEAN /\ (d.known <=> e.code \in known)
          /\ d.code = e.code /\ d.payload = e.payload /\ d.extra = e.extra
      <3>1. d = IF e.code \in known THEN Variant(e.code)
                ELSE UnknownError(e.code, None, NoExtra)
        BY <1>2 DEF Decode, Encode
      <3> HIDE DEF d
      <3>2. CASE e.code \in known BY <2>1, <3>1, <3>2 DEF Variant
      <3>3. CASE e.code \notin known BY <2>1, <3>1, <3>3 DEF UnknownError
      <3> QED BY <3>2, <3>3
    <2>4. Sound(d) BY <2>1, <2>3, NoExtraIsExtra DEF Sound
    <2>5. Object(d) = Object(e)
      <3>1. DOMAIN d.extra = {} /\ DOMAIN e.extra = {} BY <2>1, <2>3 DEF NoExtra
      <3>2. /\ DOMAIN Object(d) = {"code"} /\ DOMAIN Object(e) = {"code"}
            /\ Object(d)["code"] = d.code /\ Object(e)["code"] = e.code
        BY <2>1, <2>3, <3>1 DEF Object
      <3>3. /\ Object(d) = [key \in DOMAIN Object(d) |-> Object(d)[key]]
            /\ Object(e) = [key \in DOMAIN Object(e) |-> Object(e)[key]]
        BY DEF Object
      <3> HIDE DEF d
      <3> QED BY <2>3, <3>2, <3>3
    <2>6. Object(e)["code"] = e.code BY <2>1 DEF Object, NoExtra
    <2>7. Passed(g, d, f /\ e.code \in known)
      <3> HIDE DEF d
      <3> QED BY <1>1, <1>2, <2>3, <2>4, <2>5 DEF Passed
    <2> QED BY <1>1, <2>1, <2>2, <2>6, <2>7
  <1>3. CASE ~e.known
    <2>1. /\ Decodable(Encode(e)) <=> Object(e)["code"] \notin NonStrings
          /\ Decode(Encode(e), known) = FromObject(Object(e))
      BY <1>3 DEF Decodable, Decode, Encode
    <2>2. ASSUME Object(e)["code"] \notin NonStrings
          PROVE  Passed(g, FromObject(Object(e)), f /\ e.code \in known)
      <3> DEFINE d == FromObject(Object(e))
      <3>1. /\ Sound(d) /\ Object(d) = Object(e)
            /\ Unambiguous(e) => d.code = e.code /\ d.payload = e.payload /\ d.extra = e.extra
        BY <1>1, <2>2, FromItsObject
      <3>2. d.known = FALSE BY DEF FromObject, UnknownError
      <3>3. Unambiguous(g) => Unambiguous(e) BY DEF Passed, Unambiguous
      <3>4. ~(g.known /\ f) BY <1>3 DEF Passed
      <3> HIDE DEF d
      <3>5. d.known <=> g.known /\ (f /\ e.code \in known) BY <3>2, <3>4
      <3>6. Unambiguous(g) => d.code = g.code /\ d.payload = g.payload /\ d.extra = g.extra
        BY <3>1, <3>3 DEF Passed
      <3> QED BY <1>1, <3>1, <3>5, <3>6 DEF Passed, d
    <2> QED BY <1>1, <2>1, <2>2
  <1> QED BY <1>1, <1>2, <1>3

-----------------------------------------------------------------------------
\* Handlers

\* What a handler may mean, written out.
LEMMA MeaningForms ==
  ASSUME NEW op, NEW shape, NEW meaning \in Meanings(shape, op)
  PROVE  \/ meaning = Response
         \/ meaning = Runtime("plugin_failure") /\ shape # "result"
         \/ \E error \in DomainErrorsOf(op) : meaning = Domain(error)
  BY DEF Meanings

\* In whatever shape a handler writes its result down, the provider makes the same
\* two-level result of it.
LEMMA LoweringKeepsMeaning ==
  ASSUME NEW op, NEW shape \in Shapes, NEW meaning \in Meanings(shape, op)
  PROVE  Lower(shape, Written(shape, meaning)) = TwoLevel(meaning)
  <1> USE DEF Lower, Written, TwoLevel, Ok, Err, IsErr, Shapes
  <1>1. CASE meaning = Response BY <1>1 DEF Response
  <1>2. CASE meaning = Runtime("plugin_failure") /\ shape # "result"
    BY <1>2 DEF Runtime
  <1>3. ASSUME NEW error, meaning = Domain(error)
        PROVE  Lower(shape, Written(shape, meaning)) = TwoLevel(meaning)
    BY <1>3 DEF Domain
  <1> QED BY <1>1, <1>2, <1>3, MeaningForms

\* The errors of all shapes are those that a nested result can hold.
LEMMA ShapesMeanTheSame ==
  ASSUME NEW op, NEW shape \in Shapes
  PROVE  Meanings(shape, op) \subseteq Meanings("nested", op)
  BY DEF Meanings

\* A meaning that sets out is as its handler returned it.
LEMMA MeaningArrives ==
  ASSUME NEW op \in Operations, NEW meaning \in Meanings("nested", op),
         meaning.class = "domain"
  PROVE  Arrives(TwoLevel(meaning), meaning.error, TRUE, 0)
  <1>1. PICK error \in DomainErrorsOf(op) : meaning = Domain(error)
    BY MeaningForms DEF Response, Runtime
  <1>2. Sound(error) BY DomainErrorsAreSound
  <1>3. meaning.error = error /\ TwoLevel(meaning) = Ok(Err(error))
    BY <1>1 DEF Domain, TwoLevel
  <1>4. IsDomain(Ok(Err(error))) /\ Ok(Err(error)).ok.err = error
    BY DEF IsDomain, IsErr, Ok, Err
  <1> QED BY <1>2, <1>3, <1>4, PassedItself DEF Arrives

-----------------------------------------------------------------------------
\* The steps

LEMMA InitContract == Init => ContractInv
  BY DEF Init, ContractInv, OutwardOK, BackOK, ReturnedOK

\* No handler has run yet.
LEMMA OutwardKeeps ==
  ASSUME ContractInv,
         \/ \E capability \in Operations : ClientCall(capability) \/ HandleCall(capability)
         \/ InvokeNative \/ InvokeErased \/ ProvideObject \/ NextCall
  PROVE  ContractInv'
  <1> USE DEF ContractInv, Deliver, OutwardOK, Outward
  <1>1. /\ fluent' \in BOOLEAN /\ hops' = 0 /\ given' = None /\ OutwardOK'
    BY DEF ClientCall, HandleCall, InvokeNative, InvokeErased, ProvideObject, NextCall
  <1>2. /\ at' = "provide" => ran' \in Operations
        /\ at' = "erased" \/ at' = "invoke" => call'.capability \in Operations
    BY DEF ClientCall, HandleCall, InvokeNative, InvokeErased, ProvideObject, NextCall
  <1> QED BY <1>1, <1>2 DEF BackOK, ReturnedOK

LEMMA ProvideKeeps ==
  ASSUME ContractInv, ProvidePlugin \/ ProvideTraitObject
  PROVE  ContractInv'
  <1> USE DEF ContractInv
  <1>1. /\ at = "provide" /\ at' = "back" /\ UNCHANGED <<call, ran, hops, fluent>>
        /\ ran \in Operations /\ hops = 0 /\ fluent = TRUE
    BY DEF ProvidePlugin, ProvideTraitObject, Deliver, OutwardOK, Outward
  <1>2. PICK meaning \in Meanings("nested", ran) :
          given' = meaning /\ outcome' = TwoLevel(meaning)
    <2>1. CASE ProvidePlugin
      BY <2>1, LoweringKeepsMeaning, ShapesMeanTheSame DEF ProvidePlugin, Deliver
    <2>2. CASE ProvideTraitObject
      BY <2>2 DEF ProvideTraitObject, Deliver
    <2> QED BY <2>1, <2>2
  <1>3. BackOK' BY <1>1, <1>2, MeaningArrives DEF BackOK
  <1> QED BY <1>1, <1>2, <1>3 DEF OutwardOK, Outward, ReturnedOK

LEMMA RelayKeeps ==
  ASSUME ContractInv, NEW known, Relay(known)
  PROVE  ContractInv'
  <1> USE DEF ContractInv
  <1>1. /\ at = "back" /\ UNCHANGED <<at, call, ran, given>>
        /\ hops' = hops + 1 /\ hops \in Nat /\ hops' \in Nat /\ hops' > 0 /\ fluent \in BOOLEAN
    BY DEF Relay
  <1>2. fluent' \in BOOLEAN BY <1>1 DEF Relay
  <1>3. ASSUME given # None, given.class = "domain"
        PROVE  Arrives(outcome', given.error, fluent', hops')
    <2>1. Arrives(outcome, given.error, fluent, hops) BY <1>1, <1>3 DEF BackOK
    <2>2. CASE IsDomain(outcome) /\ Passed(given.error, outcome.ok.err, fluent)
      <3> DEFINE e == outcome.ok.err
      <3>1. /\ Decodable(Encode(e)) =>
                 Passed(given.error, Decode(Encode(e), known), fluent /\ e.code \in known)
            /\ ~Decodable(Encode(e)) => Object(given.error)["code"] \in NonStrings
            /\ Decodable(Encode(e)) => Object(given.error)["code"] \notin NonStrings
        BY <1>1, <2>2, RelayedError
      <3>2. CASE Decodable(Encode(e))
        <4>1. /\ outcome' = Ok(Err(Decode(Encode(e), known)))
              /\ fluent' = (fluent /\ e.code \in known)
          BY <2>2, <3>2 DEF Relay
        <4>2. IsDomain(outcome') /\ outcome'.ok.err = Decode(Encode(e), known)
          BY <4>1 DEF IsDomain, IsErr, Ok, Err
        <4>3. Passed(given.error, outcome'.ok.err, fluent') BY <3>1, <3>2, <4>1, <4>2
        <4> QED BY <3>1, <3>2, <4>2, <4>3 DEF Arrives
      <3>3. CASE ~Decodable(Encode(e))
        <4>1. outcome' = Err("undecodable") BY <2>2, <3>3 DEF Relay
        <4> QED BY <1>1, <3>1, <3>3, <4>1 DEF Arrives, IsErr, Err
      <3> QED BY <3>2, <3>3
    <2>3. CASE IsErr(outcome) /\ hops > 0 /\ Object(given.error)["code"] \in NonStrings
      <3>1. ~IsDomain(outcome) BY <2>3 DEF IsDomain
      <3> QED BY <1>1, <2>3, <3>1 DEF Relay, Arrives
    <2> QED BY <2>1, <2>2, <2>3 DEF Arrives
  <1>4. ASSUME given # None, given.class # "domain" PROVE outcome' = TwoLevel(given)
    <2>1. outcome = TwoLevel(given) BY <1>1, <1>4 DEF BackOK
    <2>2. given = Response \/ given = Runtime("plugin_failure")
      BY <1>4, MeaningForms DEF Domain
    <2>3. ~IsDomain(outcome)
      BY <2>1, <2>2 DEF Response, Runtime, TwoLevel, Ok, Err, IsErr, IsDomain
    <2> QED BY <2>1, <2>3 DEF Relay
  <1>5. BackOK' BY <1>1, <1>3, <1>4 DEF BackOK
  <1> QED BY <1>1, <1>2, <1>5 DEF OutwardOK, Outward, ReturnedOK

LEMMA ReturnKeeps ==
  ASSUME ContractInv, Return
  PROVE  ContractInv'
  <1> USE DEF ContractInv
  <1>1. /\ at = "back" /\ at' = "returned"
        /\ UNCHANGED <<call, ran, given, hops, fluent>>
    BY DEF Return
  <1>2. ASSUME given # None, given.class # "domain"
        PROVE  outcome' = Written("invocation_error", given)
    <2>1. outcome = TwoLevel(given) BY <1>1, <1>2 DEF BackOK
    <2>2. given = Response \/ given = Runtime("plugin_failure")
      BY <1>2, MeaningForms DEF Domain
    <2> QED BY <2>1, <2>2 DEF Return, Response, Runtime, TwoLevel, Written, Ok, Err, IsErr
  <1>3. ASSUME given # None, given.class = "domain" PROVE ReturnedOK'
    <2>1. Arrives(outcome, given.error, fluent, hops) BY <1>1, <1>3 DEF BackOK
    <2>2. CASE IsDomain(outcome)
      <3>1. outcome' = Err(Domain(outcome.ok.err))
        BY <2>2 DEF Return, IsDomain
      <3>2. /\ IsErr(outcome') /\ outcome'.err.class = "domain"
            /\ outcome'.err.error = outcome.ok.err
        BY <3>1 DEF IsErr, Err, Domain
      <3>3. ~IsErr(outcome) BY <2>2 DEF IsDomain
      <3>4. /\ Passed(given.error, outcome.ok.err, fluent)
            /\ hops = 0 \/ Object(given.error)["code"] \notin NonStrings
        BY <2>1, <3>3 DEF Arrives
      <3>5. Passed(given'.error, outcome'.err.error, fluent')
        BY <1>1, <3>2, <3>4
      <3> QED BY <1>1, <1>3, <3>2, <3>4, <3>5 DEF ReturnedOK
    <2>3. CASE IsErr(outcome)
      <3>1. IsErr(outcome') /\ outcome'.err.class = "runtime"
        BY <2>3 DEF Return, IsErr, Err, Runtime
      <3> QED BY <1>1, <1>3, <2>1, <2>3, <3>1 DEF ReturnedOK, Arrives, IsDomain
    <2> QED BY <2>1, <2>2, <2>3 DEF Arrives
  <1>4. ReturnedOK' BY <1>1, <1>2, <1>3 DEF ReturnedOK
  <1> QED BY <1>1, <1>4 DEF OutwardOK, Outward, BackOK

LEMMA NextContract == ContractInv /\ [Next]_vars => ContractInv'
  <1> SUFFICES ASSUME ContractInv, [Next]_vars PROVE ContractInv' OBVIOUS
  <1>1. CASE UNCHANGED vars
    BY <1>1 DEF vars, ContractInv, OutwardOK, BackOK, ReturnedOK
  <1>2. CASE \E known \in Versions(call.operation) : Relay(known)
    BY <1>2, RelayKeeps
  <1> QED BY <1>1, <1>2, OutwardKeeps, ProvideKeeps, ReturnKeeps DEF Next

-----------------------------------------------------------------------------
\* The consumer learns the response, the failure, or the code, payload and other
\* fields of the error that the handler returned, if they do not collide.
THEOREM OutcomesCross == Spec => []OutcomeCrossesUnchanged
  <1>1. ASSUME ContractInv PROVE OutcomeCrossesUnchanged
    <2>1. ASSUME at = "returned", given # None, given.class = "domain",
                 Unambiguous(given.error)
          PROVE  /\ IsErr(outcome) /\ outcome.err.class = "domain"
                 /\ outcome.err.error.code = given.error.code
                 /\ outcome.err.error.payload = given.error.payload
                 /\ outcome.err.error.extra = given.error.extra
      <3>1. PICK op \in Operations : given \in Meanings("nested", op)
        BY <1>1, <2>1 DEF ContractInv
      <3>2. PICK error \in DomainErrorsOf(op) : given = Domain(error)
        BY <2>1, <3>1, MeaningForms DEF Response, Runtime
      <3>3. Sound(error) /\ given.error = error
        BY <3>2, DomainErrorsAreSound DEF Domain
      <3>4. Object(given.error)["code"] = given.error.code
        BY <2>1, <3>3, ObjectEntries DEF Unambiguous, Reserved
      <3>5. Object(given.error)["code"] \notin NonStrings BY <3>3, <3>4 DEF Sound
      <3> QED BY <1>1, <2>1, <3>5 DEF ContractInv, ReturnedOK, Passed
    <2>2. ASSUME at = "returned", given # None, given.class # "domain"
          PROVE  outcome = Written("invocation_error", given)
      BY <1>1, <2>2 DEF ContractInv, ReturnedOK
    <2> QED BY <2>1, <2>2 DEF OutcomeCrossesUnchanged
  <1> QED BY <1>1, InitContract, NextContract, PTL DEF Spec

\* Colliding or not, the error that arrives has the portable form of the one the
\* handler returned; it fails to arrive exactly if that form has no string as code.
THEOREM PortableFormsAreKept == Spec => []PortableFormIsKept
  <1>1. ContractInv => PortableFormIsKept
    BY DEF ContractInv, ReturnedOK, Passed, PortableFormIsKept
  <1> QED BY <1>1, InitContract, NextContract, PTL DEF Spec

\* It meets a variant exactly if the handler returned one and every relay knew it.
THEOREM VariantsSurvive == Spec => []VariantsSurviveWhoKnowsThem
  <1>1. ContractInv => VariantsSurviveWhoKnowsThem
    BY DEF ContractInv, ReturnedOK, Passed, VariantsSurviveWhoKnowsThem
  <1> QED BY <1>1, InitContract, NextContract, PTL DEF Spec
===============================================================================
