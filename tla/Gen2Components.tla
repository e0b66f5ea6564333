--------------------------- MODULE Gen2Components ---------------------------
(***************************************************************************)
(* gen2/component.go and gen2/components: programs that read and change    *)
(* the configuration of the components of one device, and call their       *)
(* methods.  What a request carries follows from the tables.  The device   *)
(* takes over the fields a request carries and keeps the others; other     *)
(* clients change it meanwhile.                                            *)
(***************************************************************************)
EXTENDS ComponentTables, Naturals

CONSTANTS
    Programs,
    MaxEdits,           \* bound: fields set, over all drafts
    MaxWrites           \* bound: SetConfig calls, and changes made elsewhere

VARIABLES
    kind,               \* which component the behaviour is about, and whether it is
    about,              \* about its configuration or its methods: they share no state
    config,             \* the device: the configuration of each number of it
    draft,              \* program -> the structure it holds
    meant,              \* history: the configuration the edits ask for
    excuses,            \* history: why it may be another one
    request,            \* the last method call: what was given, what was sent
    version, info,      \* the device's firmware; Device.info
    editsMade, writes

vars == <<kind, about, config, draft, meant, excuses, request, version, info, editsMade, writes>>

Nobody == [id |-> 0, values |-> <<>>, edited |-> {}, read |-> FALSE]
NoRequest == [method |-> "none", given |-> <<>>, sent |-> <<>>]

FieldsOf(k) == Components[k].config.optional \cup Components[k].config.nonzero
                   \cup Components[k].config.plain
Numbers(k) == IF Components[k].numbered THEN {0, 1} ELSE {0}

\* Every field of a device has a value of its own; "zero" is the zero of its type.
Init ==
    /\ kind \in DOMAIN Components
    /\ about \in {"configuration", "methods"}
    /\ config = [i \in Numbers(kind) |->
                    [f \in FieldsOf(kind) |-> IF i = 0 THEN "first" ELSE "second"]]
    /\ draft = [p \in Programs |-> Nobody]
    /\ meant = config
    /\ excuses = {}
    /\ request = NoRequest
    /\ version = 1 /\ info = 0
    /\ editsMade = 0 /\ writes = 0

-----------------------------------------------------------------------------
(* Configuration.                                                          *)

\* GetConfig fills the structure; it can hold every field of the table.
GetConfig(p, i) ==
    /\ about = "configuration" /\ Components[kind].style # "none"
    /\ draft' = [draft EXCEPT ![p] =
            [id |-> i, values |-> config[i], edited |-> {}, read |-> TRUE]]
    /\ UNCHANGED <<kind, about, config, meant, excuses, request, version, info, editsMade, writes>>

\* &SwitchConfig{}: pointers are nil, the rest is zero.
NewConfig(p) ==
    /\ about = "configuration" /\ Components[kind].style # "none"
    /\ draft' = [draft EXCEPT ![p] =
            [id |-> 0, edited |-> {}, read |-> FALSE,
             values |-> [f \in FieldsOf(kind) |->
                 IF f \in Components[kind].config.plain THEN "zero" ELSE "nil"]]]
    /\ UNCHANGED <<kind, about, config, meant, excuses, request, version, info, editsMade, writes>>

Edit(p, f, v) ==
    /\ editsMade < MaxEdits
    /\ f \in DOMAIN draft[p].values
    /\ draft' = [draft EXCEPT ![p].values[f] = v, ![p].edited = @ \cup {f}]
    /\ editsMade' = editsMade + 1
    /\ UNCHANGED <<kind, about, config, meant, excuses, request, version, info, writes>>

Gone(f, v) == v = "nil" \/ (v = "zero" /\ f \in Components[kind].config.nonzero)

\* Mutant of Sent: a nil field goes out as null and clears the device's.
SentWithNulls(values) == [f \in DOMAIN values \ Components[kind].lost |-> values[f]]

\* What the JSON of the structure, or the fields picked out of it, carry.
Sent(values) ==
    [f \in {g \in DOMAIN values \ Components[kind].lost : ~Gone(g, values[g])} |-> values[f]]

\* Mutant of Addressee: the structure's own identifier is overlooked when it is 0.
AlwaysZero(p, i) == IF Components[kind].style = "flat" THEN draft[p].id ELSE i

\* SetConfigWithID fills in an identifier that is zero, and the structure's
\* identifier then replaces the component's in the flat request.
Addressee(p, i) ==
    IF Components[kind].style = "flat" /\ draft[p].id # 0 THEN draft[p].id ELSE i

\* What a program may get wrong itself, by what it has in hand and not by what is sent.
Excuses(p, i) ==
    LET d == draft[p]
        table == Components[kind]
        carried == {f \in DOMAIN d.values \ (d.edited \cup table.lost) :
                       d.values[f] \notin {"nil", config[i][f]}}
    IN  {e \in {"astray", "stale", "unset", "lost", "zero"} :
            CASE e = "astray" -> table.style = "flat" /\ d.id \notin {0, i}
              [] e = "stale"  -> d.read /\ carried # {}
              [] e = "unset"  -> ~d.read /\ carried # {}
              [] e = "lost"   -> d.edited \cap table.lost # {}
              [] e = "zero"   -> \E f \in d.edited \cap table.config.nonzero :
                                     d.values[f] = "zero"}

\* The device takes over the fields it is sent.
Written(device, sent) ==
    [f \in DOMAIN device |-> IF f \in DOMAIN sent THEN sent[f] ELSE device[f]]

SetConfig(p, i) ==
    /\ writes < MaxWrites
    /\ draft[p].edited # {}
    /\ config' = [config EXCEPT ![Addressee(p, i)] = Written(@, Sent(draft[p].values))]
    /\ meant' = [meant EXCEPT ![i] = Written(@, [f \in draft[p].edited |-> draft[p].values[f]])]
    /\ excuses' = excuses \cup Excuses(p, i)
    /\ draft' = [draft EXCEPT ![p] =
            IF Components[kind].style = "flat" THEN [@ EXCEPT !.id = Addressee(p, i)] ELSE @]
    /\ writes' = writes + 1
    /\ UNCHANGED <<kind, about, request, version, info, editsMade>>

\* Another client, or the device's own page, changes a field.
ChangedElsewhere(i, f) ==
    /\ writes < MaxWrites
    /\ about = "configuration" /\ f \in FieldsOf(kind)
    /\ config' = [config EXCEPT ![i][f] = "other"]
    /\ meant' = [meant EXCEPT ![i][f] = "other"]
    /\ writes' = writes + 1
    /\ UNCHANGED <<kind, about, draft, excuses, request, version, info, editsMade>>

-----------------------------------------------------------------------------
(* Methods.                                                                *)

\* Only these look at the value of an argument.
Validated ==
    {<<"Cover", "Open", "duration">>, <<"Cover", "Close", "duration">>,
     <<"Light", "Set", "brightness">>, <<"Input", "Trigger", "event_type">>}

Carried(args, given) ==
    [a \in {b \in DOMAIN given : b \in args.nonzero => given[b] # "zero"} |-> given[a]]

\* A method with its fixed arguments and at most one other.
Call(m, a, v) ==
    LET args  == Components[kind].calls[m]
        given == IF a = "none" THEN [b \in args.always |-> "new"]
                 ELSE [b \in args.always \cup {a} |-> IF b = a THEN v ELSE "new"]
    IN  /\ about = "methods"
        /\ a \in {"none"} \cup args.always \cup args.optional \cup args.nonzero
        /\ ~(v = "bad" /\ <<kind, m, a>> \in Validated)      \* else an error
        /\ request' = [method |-> m, given |-> given, sent |-> Carried(args, given)]
        /\ version' = IF <<kind, m>> = <<"Shelly", "Update">> THEN version + 1 ELSE version
        /\ version' <= 2
        /\ UNCHANGED <<kind, about, config, draft, meant, excuses, info, editsMade, writes>>

\* Device.GetDeviceInfo asks once and then answers from its cache.
GetDeviceInfo ==
    /\ about = "methods" /\ kind = "Shelly"
    /\ info' = IF info # 0 THEN info ELSE version
    /\ UNCHANGED <<kind, about, config, draft, meant, excuses, request, version, editsMade, writes>>

Next ==
    \/ \E p \in Programs :
          \/ NewConfig(p)
          \/ \E i \in Numbers(kind) : GetConfig(p, i) \/ SetConfig(p, i)
          \/ \E f \in FieldsOf(kind), v \in {"new", "zero"} : Edit(p, f, v)
    \/ \E i \in Numbers(kind), f \in FieldsOf(kind) : ChangedElsewhere(i, f)
    \/ \E m \in DOMAIN Components[kind].calls :
          \E a \in {"none"} \cup UNION {Components[kind].calls[m].always,
                        Components[kind].calls[m].optional, Components[kind].calls[m].nonzero},
             v \in {"new", "zero", "bad"} : Call(m, a, v)
    \/ GetDeviceInfo

Spec == Init /\ [][Next]_vars

-----------------------------------------------------------------------------
TypeOK ==
    /\ kind \in DOMAIN Components
    /\ DOMAIN config = Numbers(kind)
    /\ \A i \in Numbers(kind) : DOMAIN config[i] = FieldsOf(kind)
    /\ \A p \in Programs : DOMAIN draft[p].values \in {{}, FieldsOf(kind)}
    /\ excuses \subseteq {"astray", "stale", "unset", "lost", "zero"}
    /\ info \in 0..version

\* Programs that change a component, each from a new structure or from one it has
\* read, together make exactly their edits and touch no other field and no other
\* component, whatever the component; unless a structure that was read is written to
\* another component or after someone else's change, carries a zero that JSON leaves
\* out, or holds a field SetConfig forgets or always sends.  (component.go:121, 324.)
ExactlyTheEdits == excuses = {} => config = meant

\* gen2/components/input.go:259: "Only non-nil fields in the config will be updated."
OnlyNonNil == excuses \subseteq {"unset"} => config = meant

\* webhook.go:192: "only non-nil fields are updated", with the example Enable: false:
\* what a program gives a method reaches the device.
GivenIsSent == request.sent = request.given

\* The cached information is that of the device.
InfoIsCurrent == info \in {0, version}
=============================================================================
