-------------------------- MODULE StrategyBuilder --------------------------
(***************************************************************************)
(* The strategy builder (internal/strategy/builder) and the /strategy      *)
(* commands of the terminal (controllers/tui/strategy.go).  The service    *)
(* keeps pointers: an update changes the stored instance field by field,   *)
(* and a refusal leaves the fields it had changed.  The terminal calls it  *)
(* from one goroutine.                                                     *)
(*                                                                         *)
(* A value has the type it was parsed to and a number: a decimal counts    *)
(* thousandths.  Of a template its parameters stand here, and the          *)
(* placeholders its indicators and rules use; nothing in the repository    *)
(* adds templates to the built-in ones.                                    *)
(***************************************************************************)
EXTENDS Integers, FiniteSets

CONSTANTS
    InstanceIds,   \* what uuid.New returns, each once
    Missing        \* no instance; also a field an update does not touch

VARIABLES
    instances,     \* id -> the stored instance, or Missing
    usedIds,
    spoiled,       \* ghost: instances a refused update left without a name or symbol
    reply          \* what the last call said: "ok" or "refused"

builderVars == <<instances, usedIds, spoiled, reply>>

Def(type, min, max) == [type |-> type, min |-> min, max |-> max]
Quantity == Def("decimal", 1, 100000)

\* loadBuiltInTemplates
Templates ==
    [sma_crossover |->
        [parameters |-> [fast_period |-> Def("int", 5, 50), slow_period |-> Def("int", 20, 200),
                         quantity |-> Quantity],
         indicators |-> {"fast_period", "slow_period"},
         rules |-> {"quantity"}],
     rsi_mean_revert |->
        [parameters |-> [rsi_period |-> Def("int", 7, 30), oversold_level |-> Def("int", 10, 40),
                         overbought_level |-> Def("int", 60, 90), quantity |-> Quantity],
         indicators |-> {"rsi_period"},
         rules |-> {"oversold_level", "overbought_level", "quantity"}]]

DefsOf(t) == Templates[t].parameters

-----------------------------------------------------------------------------
\* Every built-in parameter is required.
validateParameterValue(def, v) == v.type = def.type /\ def.min =< v.n /\ v.n =< def.max
validateParameters(t, params) ==
    \A key \in DOMAIN DefsOf(t) :
        key \in DOMAIN params /\ validateParameterValue(DefsOf(t)[key], params[key])

\* A placeholder of a parameter that is not given stays a text.
Placeholder == [type |-> "string", n |-> 0]
resolveValue(key, params) == IF key \in DOMAIN params THEN params[key] ELSE Placeholder
resolve(slots, params) == [key \in slots |-> resolveValue(key, params)]

Built(t, params) ==
    [indicators |-> resolve(Templates[t].indicators, params),
     rules |-> resolve(Templates[t].rules, params)]

\* StrategyInstance.Validate; a built-in template always has rules.
ValidInstance(inst) == inst.name # "" /\ inst.symbol # ""

\* The parameters of a call: each key at its least or its greatest value, and
\* perhaps one of them missing, out of its bounds or of another type.
Offers(t) ==
    LET defs == DefsOf(t)
        At(bound) == [key \in DOMAIN defs |->
                         [type |-> defs[key].type,
                          n |-> IF bound = "min" THEN defs[key].min ELSE defs[key].max]]
        Off(params, key) ==
            {[k \in DOMAIN params \ {key} |-> params[k]],
             [params EXCEPT ![key].n = defs[key].min - 1],
             [params EXCEPT ![key].n = defs[key].max + 1],
             [params EXCEPT ![key].type = "string"]}
        Base == {At("min"), At("max")}
    IN  Base \union UNION {Off(params, key) : params \in Base, key \in DOMAIN defs}

Names == {"", "a name"}
AnyParameters == UNION {Offers(t) : t \in DOMAIN Templates}
AnyBuilt == {Built(t, params) : t \in DOMAIN Templates, params \in AnyParameters}
StrategyInstances ==
    [template : DOMAIN Templates, name : Names, symbol : Names, enabled : BOOLEAN,
     params : AnyParameters, built : AnyBuilt]
ASSUME MissingAssumption == Missing \notin StrategyInstances

StoredIds == {i \in InstanceIds : instances[i] # Missing}

BuilderInit ==
    /\ instances = [i \in InstanceIds |-> Missing]
    /\ usedIds = {} /\ spoiled = {} /\ reply = "ok"

Refuses == reply' = "refused"

CreateInstance(i, t, name, symbol, params) ==
    LET inst == [template |-> t, name |-> name, symbol |-> symbol, enabled |-> FALSE,
                 params |-> params, built |-> Built(t, params)]
    IN  /\ i \notin usedIds
        /\ IF validateParameters(t, params) /\ ValidInstance(inst)
           THEN /\ instances' = [instances EXCEPT ![i] = inst]
                /\ usedIds' = usedIds \union {i}
                /\ reply' = "ok"
           ELSE Refuses /\ UNCHANGED <<instances, usedIds>>
        /\ UNCHANGED spoiled

\* The fields of the input that are not nil.
Given(new, old) == IF new = Missing THEN old ELSE new

\* Slip: the parameters are taken over before they are validated.
TakesUnvalidated(inst, params) == [inst EXCEPT !.params = params]
TakesParameters(inst, params) ==
    IF validateParameters(inst.template, params)
    THEN [inst EXCEPT !.params = params, !.built = Built(inst.template, params)]
    ELSE inst

UpdateInstance(i, name, symbol, enabled, params) ==
    /\ instances[i] # Missing
    /\ LET old == instances[i]
           changed == [old EXCEPT !.name = Given(name, @), !.symbol = Given(symbol, @),
                                  !.enabled = Given(enabled, @)]
           inst == IF params = Missing THEN changed ELSE TakesParameters(changed, params)
           accepted == params = Missing \/ validateParameters(old.template, params)
       IN  /\ instances' = [instances EXCEPT ![i] = inst]
           /\ reply' = IF accepted /\ ValidInstance(inst) THEN "ok" ELSE "refused"
           /\ spoiled' = IF ValidInstance(inst) THEN spoiled \ {i} ELSE spoiled \union {i}
    /\ UNCHANGED usedIds

\* EnableInstance and DisableInstance; a spoiled instance can be enabled.
SetEnabled(i, on) ==
    /\ instances[i] # Missing
    /\ instances' = [instances EXCEPT ![i].enabled = on]
    /\ reply' = "ok"
    /\ UNCHANGED <<usedIds, spoiled>>

DeleteInstance(i) ==
    /\ instances[i] # Missing
    /\ instances' = [instances EXCEPT ![i] = Missing]
    /\ spoiled' = spoiled \ {i}
    /\ reply' = "ok"
    /\ UNCHANGED usedIds

\* A call for an instance that is not stored.
NotFound(i) ==
    /\ instances[i] = Missing
    /\ Refuses
    /\ UNCHANGED <<instances, usedIds, spoiled>>

\* The commands parse each value by its definition's type and refuse a key the
\* template does not have, so that they reach the service with typed values only.
CommandOffers(t) ==
    {params \in Offers(t) : \A key \in DOMAIN params : params[key].type = DefsOf(t)[key].type}

StrategyCreateCommand(i) ==
    \E t \in DOMAIN Templates : \E params \in CommandOffers(t) :
        CreateInstance(i, t, "a name", "a name", params)

StrategyUpdateCommand(i) ==
    /\ instances[i] # Missing
    /\ \E params \in CommandOffers(instances[i].template) :
          UpdateInstance(i, Missing, Missing, Missing, params)

BuilderNext ==
    \E i \in InstanceIds :
        \/ StrategyCreateCommand(i)
        \/ StrategyUpdateCommand(i)
        \/ \E t \in DOMAIN Templates, name \in Names, symbol \in Names :
              \E params \in Offers(t) : CreateInstance(i, t, name, symbol, params)
        \/ \E name \in Names \union {Missing}, symbol \in Names \union {Missing},
              enabled \in BOOLEAN \union {Missing} :
              \/ UpdateInstance(i, name, symbol, enabled, Missing)
              \/ /\ instances[i] # Missing
                 /\ symbol = Missing /\ enabled = Missing
                 /\ \E params \in Offers(instances[i].template) :
                       UpdateInstance(i, name, symbol, enabled, params)
        \/ \E on \in BOOLEAN : SetEnabled(i, on)
        \/ DeleteInstance(i)
        \/ NotFound(i)

BuilderSpec == BuilderInit /\ [][BuilderNext]_builderVars

-----------------------------------------------------------------------------
BuilderTypeOK ==
    /\ usedIds \subseteq InstanceIds /\ spoiled \subseteq StoredIds /\ StoredIds \subseteq usedIds
    /\ reply \in {"ok", "refused"}
    /\ instances \in [InstanceIds -> StrategyInstances \union {Missing}]

\* Whatever updates were made, refused or half made, the indicators and rules of a
\* stored instance are its template's with the parameters it reports, these parameters
\* are the ones the template allows, and no placeholder is left in them; only a
\* refused update leaves it without a name or a symbol
\* (strategy/builder/service.go:75-113).
BuiltAsConfigured ==
    \A i \in StoredIds :
        LET inst == instances[i] IN
        /\ validateParameters(inst.template, inst.params)
        /\ inst.built = Built(inst.template, inst.params)
        /\ \A part \in {"indicators", "rules"} :
              \A key \in DOMAIN inst.built[part] : inst.built[part][key] # Placeholder
        /\ i \notin spoiled => ValidInstance(inst)
=============================================================================
