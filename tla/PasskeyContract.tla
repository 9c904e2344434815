--------------------------- MODULE PasskeyContract ---------------------------
(***************************************************************************)
(* The Passkey Capability between a consumer and the provider: one call of *)
(* an operation, from the handle of the consumer through the endpoint and  *)
(* the lowering of the provider to its handler, and the way back of the    *)
(* outcome, natively or over relays that speak the portable JSON form and  *)
(* may have been built from other versions of the contract.                *)
(*                                                                         *)
(* Requests and responses are opaque: nothing on the way looks into them.  *)
(* An unknown error is its code, a payload, and a map of other fields that *)
(* share one JSON object with these two.                                   *)
(***************************************************************************)
EXTENDS Naturals

CONSTANTS
  Values,     \* JSON values, of payloads and of other fields
  NonStrings, \* those that cannot be a code
  Names,      \* of other fields
  NewCode,    \* a code that a later version of the contract declares
  None,
  MaxHops     \* bound: relays on the way back

VARIABLES
  at,        \* how far the call has come
  call,      \* what the consumer holds and asks for
  ran,       \* the operation whose handler ran
  given,     \* what the handler returned
  outcome,   \* what is on its way back
  hops,      \* relays passed
  fluent     \* did every relay so far know the code?

vars == <<at, call, ran, given, outcome, hops, fluent>>

-----------------------------------------------------------------------------
\* The Domain Errors each operation declares

BeginAuthenticationErrors ==
  {"forbidden", "idempotency_conflict", "invalid_credentials", "invalid_request",
   "operation_in_progress"}

BeginRegistrationErrors ==
  {"disabled", "forbidden", "idempotency_conflict", "invalid_request",
   "operation_in_progress", "revision_conflict", "too_many_passkeys"}

FinishAuthenticationErrors ==
  {"challenge_expired", "challenge_used", "disabled", "forbidden",
   "idempotency_conflict", "invalid_credentials", "invalid_request",
   "operation_in_progress"}

FinishRegistrationErrors ==
  {"challenge_expired", "challenge_used", "credential_exists", "disabled",
   "forbidden", "idempotency_conflict", "invalid_credential", "invalid_request",
   "operation_in_progress", "revision_conflict"}

ListPasskeysErrors == {"disabled", "forbidden", "invalid_request"}

RevokePasskeyErrors ==
  {"disabled", "forbidden", "idempotency_conflict", "invalid_request",
   "operation_in_progress", "passkey_not_found", "revision_conflict"}

Declared ==
  [begin_authentication  |-> BeginAuthenticationErrors,
   begin_registration    |-> BeginRegistrationErrors,
   finish_authentication |-> FinishAuthenticationErrors,
   finish_registration   |-> FinishRegistrationErrors,
   list_passkeys         |-> ListPasskeysErrors,
   revoke_passkey        |-> RevokePasskeyErrors]

Operations == DOMAIN Declared

ASSUME ContractAssumption ==
  /\ None \notin Values /\ MaxHops \in Nat
  /\ NewCode \notin NonStrings
  /\ \A op \in Operations : Declared[op] \cap NonStrings = {}

\* The `extra` of an unknown error is a public map: any keys, also the two that the
\* error has fields for.
Reserved == {"code", "payload"}
Extras == UNION {[keys -> Values] : keys \in SUBSET (Reserved \cup Names)}
NoExtra == [key \in {} |-> None]

\* A value of the error type of an operation: a variant, or Unknown.
Variant(code) == [known |-> TRUE, code |-> code, payload |-> None, extra |-> NoExtra]

UnknownError(code, payload, extra) ==
  [known |-> FALSE, code |-> code, payload |-> payload, extra |-> extra]

DomainErrorsOf(op) ==
  {Variant(code) : code \in Declared[op]}
    \cup {UnknownError(code, payload, extra) :
            code \in Declared[op] \cup {NewCode}, payload \in Values \cup {None},
            extra \in Extras}

\* What a handler means by its result.
Response == [class |-> "response"]
Domain(error) == [class |-> "domain", error |-> error]
Runtime(failure) == [class |-> "runtime", failure |-> failure]

-----------------------------------------------------------------------------
\* The portable form of a Domain Error

\* The fields of an error as one object: code, payload if there is one, then the
\* entries of extra, and the last entry of a key counts.
Object(error) ==
  LET own == {"code"} \cup (IF error.payload = None THEN {} ELSE {"payload"}) IN
    [key \in own \cup DOMAIN error.extra |->
       IF key \in DOMAIN error.extra THEN error.extra[key] ELSE error[key]]

\* A variant is its code as a string; Unknown is an object.
Encode(error) ==
  IF error.known
  THEN [form |-> "string", code |-> error.code]
  ELSE [form |-> "object", object |-> Object(error)]

PayloadOf(object) == IF "payload" \in DOMAIN object THEN object["payload"] ELSE None

\* Mutants of FromObject: code and payload are read and not taken out; other fields
\* are not kept.
FromObjectByReading(object) ==
  UnknownError(object["code"], PayloadOf(object), object)

FromObjectOwnOnly(object) == UnknownError(object["code"], PayloadOf(object), NoExtra)

\* code and payload are taken out of the object, the rest becomes extra.
FromObject(object) ==
  UnknownError(object["code"], PayloadOf(object),
               [key \in DOMAIN object \ Reserved |-> object[key]])

\* Mutant of Decode: an unknown object is read by its code alone.
DecodeByCode(wire, known) ==
  LET code == IF wire.form = "string" THEN wire.code ELSE wire.object["code"] IN
    IF code \in known THEN Variant(code)
    ELSE IF wire.form = "string" THEN UnknownError(code, None, NoExtra)
    ELSE FromObject(wire.object)

\* Only a string is compared with the codes the reader knows.
Decode(wire, known) ==
  IF wire.form = "object" THEN FromObject(wire.object)
  ELSE IF wire.code \in known THEN Variant(wire.code)
  ELSE UnknownError(wire.code, None, NoExtra)

\* An object whose code is not a string is not a Domain Error.
Decodable(wire) == wire.form = "object" => wire.object["code"] \notin NonStrings

-----------------------------------------------------------------------------
\* How a handler may write its result down, and the two-level result it becomes

Ok(value) == [ok |-> value]
Err(error) == [err |-> error]
IsErr(result) == "err" \in DOMAIN result

Shapes == {"result", "nested", "plugin_error", "invocation_error"}

\* A plain Result has no place for a Runtime Failure.
Meanings(shape, op) ==
  {Response} \cup {Domain(error) : error \in DomainErrorsOf(op)}
    \cup (IF shape = "result" THEN {} ELSE {Runtime("plugin_failure")})

TwoLevel(meaning) ==
  CASE meaning.class = "response" -> Ok(Ok("response"))
    [] meaning.class = "domain"   -> Ok(Err(meaning.error))
    [] meaning.class = "runtime"  -> Err(meaning.failure)

Written(shape, meaning) ==
  CASE shape = "nested" -> TwoLevel(meaning)
    [] shape = "result" -> IF meaning.class = "response" THEN Ok("response") ELSE Err(meaning.error)
    [] OTHER            -> IF meaning.class = "response" THEN Ok("response") ELSE Err(meaning)

\* Mutant of Lower: every error of a handler is one of the domain.
LowerFlat(shape, written) ==
  IF shape = "nested" THEN written
  ELSE IF ~IsErr(written) \/ shape = "result" THEN Ok(written)
  ELSE Ok(Err(UnknownError(NewCode, None, NoExtra)))

Lower(shape, written) ==
  IF shape = "nested" THEN written
  ELSE IF shape = "result" THEN Ok(written)
  ELSE IF ~IsErr(written) THEN Ok(Ok(written.ok))
  ELSE IF written.err.class = "domain" THEN Ok(Err(written.err.error))
  ELSE Err(written.err.failure)

-----------------------------------------------------------------------------
Init ==
  /\ at = "idle"
  /\ call = None /\ ran = None /\ given = None /\ outcome = None
  /\ hops = 0 /\ fluent = TRUE

\* PasskeyClient asks for the operation its handle is typed for.
ClientCall(capability) ==
  /\ at = "idle"
  /\ \E typed \in BOOLEAN :
       call' = [capability |-> capability, operation |-> capability, typed |-> typed]
  /\ at' = "invoke"
  /\ UNCHANGED <<ran, given, outcome, hops, fluent>>

\* A holder of a bare handle may ask for any other operation by name.
HandleCall(capability) ==
  /\ at = "idle"
  /\ \E operation \in (Operations \cup {"other"}) \ {capability}, typed \in BOOLEAN :
       call' = [capability |-> capability, operation |-> operation, typed |-> typed]
  /\ at' = "invoke"
  /\ UNCHANGED <<ran, given, outcome, hops, fluent>>

Deliver(result) ==
  /\ outcome' = result
  /\ at' = "back"

\* invoke_native: straight to the provider if the name and the endpoint are its own,
\* else with the request in a box.
InvokeNative ==
  /\ at = "invoke"
  /\ IF call.operation = call.capability /\ call.typed
     THEN at' = "provide" /\ ran' = call.capability
     ELSE at' = "erased" /\ UNCHANGED ran
  /\ UNCHANGED <<call, given, outcome, hops, fluent>>

\* PasskeyEndpoint::invoke: by name, and the request must be of that operation.
InvokeErased ==
  /\ at = "erased"
  /\ \/ /\ call.operation \notin Operations
        /\ Deliver(Err("unknown_operation"))
        /\ UNCHANGED ran
     \/ /\ call.operation \in Operations
        /\ call.operation # call.capability
        /\ Deliver(Err("protocol_violation"))
        /\ UNCHANGED ran
     \/ /\ call.operation = call.capability
        /\ at' = "provide"
        /\ ran' = call.operation
        /\ UNCHANGED outcome
  /\ UNCHANGED <<call, given, hops, fluent>>

\* The Plugin is a value: its handler runs and its result is lowered.
ProvidePlugin ==
  /\ at = "provide"
  /\ \E shape \in Shapes : \E meaning \in Meanings(shape, ran) :
       given' = meaning /\ Deliver(Lower(shape, Written(shape, meaning)))
  /\ UNCHANGED <<call, ran, hops, fluent>>

\* The Plugin is an object that may not be there (yet, or any more).
ProvideObject ==
  /\ at = "provide"
  /\ Deliver(Err("object_absent"))
  /\ ran' = None
  /\ UNCHANGED <<call, given, hops, fluent>>

\* The Plugin implements the provider trait itself: nothing is lowered.
ProvideTraitObject ==
  /\ at = "provide"
  /\ \E meaning \in Meanings("nested", ran) :
       given' = meaning /\ Deliver(TwoLevel(meaning))
  /\ UNCHANGED <<call, ran, hops, fluent>>

IsDomain(result) == ~IsErr(result) /\ IsErr(result.ok)

\* One relay: the outcome is encoded on one side and decoded on the other, by a
\* program that knows every code the contract declares, an earlier one that knows
\* fewer, or a later one that knows more.  What cannot be decoded is a failure.
Relay(known) ==
  /\ at = "back" /\ hops < MaxHops
  /\ \/ /\ IsDomain(outcome) /\ Decodable(Encode(outcome.ok.err))
        /\ outcome' = Ok(Err(Decode(Encode(outcome.ok.err), known)))
        /\ fluent' = (fluent /\ outcome.ok.err.code \in known)
     \/ /\ IsDomain(outcome) /\ ~Decodable(Encode(outcome.ok.err))
        /\ outcome' = Err("undecodable")
        /\ UNCHANGED fluent
     \/ /\ ~IsDomain(outcome)
        /\ UNCHANGED <<outcome, fluent>>
  /\ hops' = hops + 1
  /\ UNCHANGED <<at, call, ran, given>>

Versions(op) ==
  {Declared[op], Declared[op] \cup {NewCode}} \cup {Declared[op] \ {code} : code \in Declared[op]}

\* PasskeyClient: a response, or one error that is either of the domain or a failure.
Return ==
  /\ at = "back"
  /\ at' = "returned"
  /\ outcome' = IF IsErr(outcome) THEN Err(Runtime(outcome.err))
                ELSE IF IsErr(outcome.ok) THEN Err(Domain(outcome.ok.err))
                ELSE Ok(outcome.ok.ok)
  /\ UNCHANGED <<call, ran, given, hops, fluent>>

NextCall ==
  /\ at = "returned"
  /\ at' = "idle"
  /\ call' = None /\ ran' = None /\ given' = None /\ outcome' = None
  /\ hops' = 0 /\ fluent' = TRUE

Next ==
  \/ \E capability \in Operations : ClientCall(capability) \/ HandleCall(capability)
  \/ InvokeNative \/ InvokeErased
  \/ ProvidePlugin \/ ProvideObject \/ ProvideTraitObject
  \/ at = "back" /\ call.operation \in Operations
       /\ \E known \in Versions(call.operation) : Relay(known)
  \/ Return \/ NextCall

Spec == Init /\ [][Next]_vars

-----------------------------------------------------------------------------
\* No extra key claims the place of the code or of the payload.
Unambiguous(error) == DOMAIN error.extra \cap Reserved = {}

\* The consumer learns what the handler returned: the same response, the same
\* failure, or an error with the same code, payload and other fields, whatever the
\* shape of the handler and however many relays of whatever version the outcome has
\* passed, unless the fields of an unknown error get in each other's way.
OutcomeCrossesUnchanged ==
  at = "returned" /\ given # None =>
    IF given.class = "domain"
    THEN Unambiguous(given.error) =>
           /\ IsErr(outcome) /\ outcome.err.class = "domain"
           /\ outcome.err.error.code = given.error.code
           /\ outcome.err.error.payload = given.error.payload
           /\ outcome.err.error.extra = given.error.extra
    ELSE outcome = Written("invocation_error", given)

\* Also then the consumer, and every relay, has an error of one portable form with
\* that of the handler: who sends it on sends the same object.  It is lost only where
\* the object has a code that is no string, and then at the first relay.
PortableFormIsKept ==
  at = "returned" /\ given # None /\ given.class = "domain" =>
    LET object == Object(given.error) IN
      /\ outcome.err.class = "domain" => Object(outcome.err.error) = object
      /\ outcome.err.class = "domain" <=> hops = 0 \/ object["code"] \notin NonStrings

\* The consumer meets a variant of its own exactly if the handler returned one and
\* every program on the way knew the code: one that does not turns the error into
\* Unknown for good.
VariantsSurviveWhoKnowsThem ==
  /\ at = "returned" /\ given # None /\ given.class = "domain"
  /\ outcome.err.class = "domain"
  => (outcome.err.error.known <=> given.error.known /\ fluent)
=============================================================================
