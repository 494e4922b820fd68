------------------------------ MODULE Decoding ------------------------------
(***************************************************************************)
(* How the answers of the beacon node (src/providers/consensus/client.py)  *)
(* are made into the dataclasses of src/providers/consensus/typings.py by  *)
(* `from_response` and `Nested.__post_init__` of src/utils/dataclass.py.   *)
(* The two of a head are taken apart by `asdict` and put together again as *)
(* the FullBlockInfo handlers read, in `_get_header_full_info` of          *)
(* src/watcher.py; the others are read as they are.                        *)
(*                                                                         *)
(* Abstracted: one or two of the fields of a class that are plain data     *)
(* stand for all of them; a text is named by the class and the field it    *)
(* belongs to.                                                             *)
(***************************************************************************)
EXTENDS Naturals, Sequences, TLC

VARIABLES headerJson,  \* data of the answer to get_block_header, or the only one
          blockJson,   \* data of the answer to get_block_details
          edited,      \* how the answers differ from what is specified
          stage,       \* "header", "details", "merge", "same_slot", "full",
                       \* "raised", or the class of an answer read alone, "read"
          header,      \* current_head
          block,       \* current_block
          full         \* the FullBlockInfo, or what the answer alone has become

vars == <<headerJson, blockJson, edited, stage, header, block, full>>

-----------------------------------------------------------------------------
(* The dataclasses: of each, its fields and how they are annotated.        *)

Plain == [as |-> "plain"]
One(c) == [as |-> "one", class |-> c]
Many(c) == [as |-> "many", class |-> c]
Maybe(c) == [as |-> "optional", class |-> c]

HeaderFields == [root |-> Plain, header |-> One("BlockHeader")]
DetailsFields == [message |-> One("BlockMessage"), signature |-> Plain]

Fields ==
    [BlockHeaderResponseData |-> HeaderFields,
     BlockHeader |->
        [message |-> One("BlockHeaderMessage"), signature |-> Plain],
     BlockHeaderMessage |-> [slot |-> Plain, parent_root |-> Plain],
     BlockDetailsResponse |-> DetailsFields,
     BlockMessage |-> [slot |-> Plain, body |-> One("BlockBody")],
     BlockBody |->
        [execution_payload |-> One("BlockExecutionPayload"),
         voluntary_exits |-> Many("BlockVoluntaryExit"),
         proposer_slashings |-> Plain,
         execution_requests |-> Maybe("ExecutionRequests")],
     BlockExecutionPayload |-> [block_number |-> Plain],
     BlockVoluntaryExit |->
        [message |-> One("VoluntaryExit"), signature |-> Plain],
     VoluntaryExit |-> [validator_index |-> Plain],
     ExecutionRequests |->
        [deposits |-> Many("DepositRequest"),
         withdrawals |-> Many("WithdrawalRequest"),
         consolidations |-> Many("ConsolidationRequest")],
     DepositRequest |-> [pubkey |-> Plain],
     WithdrawalRequest |-> [validator_pubkey |-> Plain],
     ConsolidationRequest |-> [source_pubkey |-> Plain],
     GenesisResponse |-> [genesis_time |-> Plain],
     ChainReorgEvent |-> [slot |-> Plain, depth |-> Plain],
     PendingConsolidation |-> [source_index |-> Plain, target_index |-> Plain],
     Validator |-> [status |-> Plain, validator |-> One("ValidatorState")],
     ValidatorState |-> [pubkey |-> Plain],
     FullBlockInfo |-> [root |-> Plain, header |-> One("BlockHeader"),
                        message |-> One("BlockMessage"), signature |-> Plain]]

Classes == DOMAIN Fields

\* Answers read by themselves, and those that are lists.
Alone == {"GenesisResponse", "ChainReorgEvent"}
Listed == {"PendingConsolidation", "Validator"}

\* Only an optional field has a default, None.
Optional(c, f) == Fields[c][f].as = "optional"

-----------------------------------------------------------------------------
(* Values: JSON, and objects of a class.                                   *)

Text(t) == [is |-> "text", of |-> t]
Dict(d) == [is |-> "dict", of |-> d]
List(l) == [is |-> "list", of |-> l]
Object(c, fields) == [is |-> c, of |-> fields]
Null == [is |-> "null"]
Error == [is |-> "error"]

IsObject(v) == v.is \in Classes

\* Neither None nor an empty collection.
Truthy(v) == v # Null /\ (v.is \in {"dict", "list"} => DOMAIN v.of # {})

\* Mutated form of Kept: only those without a default.
KeptRequired(c, d) ==
    [f \in {g \in DOMAIN d \intersect DOMAIN Fields[c] : ~Optional(c, g)}
        |-> d[f]]

\* Mutated form of Kept: everything, as the constructor by itself would.
KeptAll(c, d) == d

\* What `from_response` passes on: the fields the class has.
Kept(c, d) == [f \in DOMAIN d \intersect DOMAIN Fields[c] |-> d[f]]

RECURSIVE New(_, _), Convert(_, _), AsDict(_)

\* `__post_init__` for one field: a class, a list of one, an optional one.
Convert(type, v) ==
    CASE type.as = "plain" -> v
      [] type.as = "one" ->
            IF IsObject(v) THEN v
            ELSE IF v.is = "dict" THEN New(type.class, Kept(type.class, v.of))
            ELSE Error
      [] type.as = "optional" ->
            IF ~Truthy(v) THEN v
            ELSE IF v.is = "dict" THEN New(type.class, Kept(type.class, v.of))
            ELSE Error
      [] type.as = "many" ->
            IF v.is \notin {"list", "dict"} \/ (v.is = "dict" /\ Truthy(v))
              THEN Error
            ELSE LET all == [i \in DOMAIN v.of |->
                                Convert(One(type.class), v.of[i])]
                 IN  IF \E i \in DOMAIN all : all[i] = Error THEN Error
                                                             ELSE List(all)

\* The constructor: a TypeError for a field too many or too few, or one that
\* does not convert.
New(c, d) ==
    IF \/ ~ (DOMAIN d \subseteq DOMAIN Fields[c])
       \/ \E f \in DOMAIN Fields[c] : f \notin DOMAIN d /\ ~Optional(c, f)
      THEN Error
    ELSE LET all == [f \in DOMAIN Fields[c] |->
                        Convert(Fields[c][f],
                                IF f \in DOMAIN d THEN d[f] ELSE Null)]
         IN  IF \E f \in DOMAIN all : all[f] = Error THEN Error
                                                     ELSE Object(c, all)

\* `dataclasses.asdict`.
AsDict(v) ==
    IF IsObject(v) THEN Dict([f \in DOMAIN v.of |-> AsDict(v.of[f])])
    ELSE IF v.is = "list" THEN List([i \in DOMAIN v.of |-> AsDict(v.of[i])])
    ELSE v

\* `get_block_header`, `get_block_details`, `get_genesis` and the event of a
\* reorg: data that is a mapping.
Decoded(c, data) == IF data.is = "dict" THEN New(c, Kept(c, data.of)) ELSE Error

\* `get_validators`, `get_pending_consolidations`: a list of mappings.
DecodedList(c, data) ==
    IF data.is # "list" THEN Error
    ELSE LET all == [i \in DOMAIN data.of |-> Decoded(c, data.of[i])]
         IN  IF \E i \in DOMAIN all : all[i] = Error THEN Error ELSE List(all)

\* `FullBlockInfo(**asdict(current_head), **asdict(current_block))`.
Merged == New("FullBlockInfo", AsDict(header).of @@ AsDict(block).of)

-----------------------------------------------------------------------------
(* What the beacon node answers: data as specified, or with one edit.      *)

RECURSIVE Sample(_), Paths(_), Put(_, _, _)

\* The data of a class, with one element in every list.
Sample(c) ==
    Dict([f \in DOMAIN Fields[c] |->
        LET type == Fields[c][f] IN
        CASE type.as = "plain" -> Text(<<c, f>>)
          [] type.as = "many" -> List(<<Sample(type.class)>>)
          [] OTHER -> Sample(type.class)])

\* The fields of a class and of the classes in it.
Paths(c) ==
    UNION {{<<f>>} \union
              IF Fields[c][f] = Plain THEN {}
              ELSE {<<f>> \o p : p \in Paths(Fields[c][f].class)} :
           f \in DOMAIN Fields[c]}

\* At the end of a path: a field the class does not have, the field missing,
\* null, or an empty mapping or list.
Edits == {"extra", "gone", "null", "no_names", "no_elements"}

Put(v, path, edit) ==
    LET f == Head(path) IN
    IF v.is = "list" THEN List([v.of EXCEPT ![1] = Put(@, path, edit)])
    ELSE IF Len(path) > 1 THEN Dict([v.of EXCEPT ![f] = Put(@, Tail(path), edit)])
    ELSE CASE edit = "extra" -> Dict(v.of @@ [of_a_later_fork |-> Text(path)])
           [] edit = "gone" -> Dict([g \in DOMAIN v.of \ {f} |-> v.of[g]])
           [] edit = "null" -> Dict([v.of EXCEPT ![f] = Null])
           [] edit = "no_names" -> Dict([v.of EXCEPT ![f] = Dict(<<>>)])
           [] edit = "no_elements" -> Dict([v.of EXCEPT ![f] = List(<<>>)])

Answers(c) ==
    {[data |-> Sample(c), edits |-> {}], [data |-> Null, edits |-> {"null"}]}
    \union {[data |-> Put(Sample(c), path, edit), edits |-> {edit}] :
                path \in Paths(c), edit \in Edits}

HeadAnswers ==
    /\ stage = "header"
    /\ \E h \in Answers("BlockHeaderResponseData"),
          b \in Answers("BlockDetailsResponse") :
          /\ headerJson = h.data
          /\ blockJson = b.data
          /\ edited = h.edits \union b.edits

\* In a list, the second of two elements is the one edited.
OtherAnswer ==
    /\ stage \in Alone \union Listed
    /\ \E a \in Answers(stage) :
          /\ headerJson \in IF stage \in Alone THEN {a.data}
                           ELSE {List(<<Sample(stage), a.data>>), Null}
          /\ edited = IF headerJson = Null THEN {"null"} ELSE a.edits
    /\ blockJson = Null

Init ==
    /\ HeadAnswers \/ OtherAnswer
    /\ header = Null
    /\ block = Null
    /\ full = Null

-----------------------------------------------------------------------------
(* `_get_header_full_info` of the head.                                    *)

\* `v[name]` succeeds.
Has(v, name) == v.is = "dict" /\ name \in DOMAIN v.of

\* `data['header']['message']['slot']`, which has to be a number.
SlotReadable(v) ==
    /\ Has(v, "header") /\ Has(v.of.header, "message")
    /\ Has(v.of.header.of.message, "slot")
    /\ v.of.header.of.message.of.slot.is = "text"

\* What the code of this stage makes of what it has got.
Made ==
    CASE stage \in Alone -> Decoded(stage, headerJson)
      [] stage \in Listed -> DecodedList(stage, headerJson)
      [] stage = "header" /\ SlotReadable(headerJson) ->
            Decoded("BlockHeaderResponseData", headerJson)
      [] stage = "details" -> Decoded("BlockDetailsResponse", blockJson)
      [] stage = "merge" -> Merged
      [] OTHER -> Error

\* The answer has passed `force_use_fallback_callback`; its slot is that of the
\* last handled head, or another one.
GetHeader(sameSlot) ==
    /\ stage = "header"
    /\ Made # Error
    /\ header' = Made
    /\ stage' = IF sameSlot THEN "same_slot" ELSE "details"
    /\ UNCHANGED <<headerJson, blockJson, edited, block, full>>

GetDetails ==
    /\ stage = "details"
    /\ Made # Error
    /\ block' = Made
    /\ stage' = "merge"
    /\ UNCHANGED <<headerJson, blockJson, edited, header, full>>

Merge ==
    /\ stage = "merge"
    /\ Made # Error
    /\ full' = Made
    /\ stage' = "full"
    /\ UNCHANGED <<headerJson, blockJson, edited, header, block>>

\* A caller in `__init__`, `listen_chain_reorg_event` or a handler has its
\* answer.
GetOther ==
    /\ stage \in Alone \union Listed
    /\ Made # Error
    /\ full' = Made
    /\ stage' = "read"
    /\ UNCHANGED <<headerJson, blockJson, edited, header, block>>

\* An exception: it ends the iteration of the main loop, or the caller.
Raises ==
    /\ stage \in {"header", "details", "merge"} \union Alone \union Listed
    /\ Made = Error
    /\ stage' = "raised"
    /\ UNCHANGED <<headerJson, blockJson, edited, header, block, full>>

Next ==
    \/ \E sameSlot \in BOOLEAN : GetHeader(sameSlot)
    \/ GetDetails
    \/ Merge
    \/ GetOther
    \/ Raises

Spec == Init /\ [][Next]_vars

-----------------------------------------------------------------------------
(* Properties.                                                             *)

RECURSIVE Reads(_, _, _)

\* What it means that an object is what the data says: of the class, with each
\* field there and its value the plain data, an object that is what the data
\* of the field says, or nothing where the data has nothing.
Reads(c, data, object) ==
    /\ object.is = c
    /\ \A f \in DOMAIN Fields[c] :
          LET type == Fields[c][f]
              there == f \in DOMAIN data
              value == object.of[f]
          IN  \/ there /\ type.as = "plain" /\ value = data[f]
              \/ there /\ type.as # "many" /\ data[f].is = "dict"
                    /\ Reads(type.class, data[f].of, value)
              \/ there /\ type.as = "many" /\ DOMAIN value.of = DOMAIN data[f].of
                    /\ \A i \in DOMAIN value.of :
                          Reads(type.class, data[f].of[i].of, value.of[i])
              \/ type.as = "optional" /\ ~Truthy(value)
                    /\ (there => ~Truthy(data[f]))

\* A block that reaches the handlers reads as the beacon node answered it, at
\* every level: conversion to dataclasses, back and again loses and mixes up
\* nothing, and a block with a part missing never gets there half-made.  So do
\* the answers that are read alone, each element of a list in its place.
ReadAsSent ==
    /\ stage = "full" =>
          Reads("FullBlockInfo", headerJson.of @@ blockJson.of, full)
    /\ stage = "read" =>
          IF full.is = "list"
            THEN /\ DOMAIN full.of = DOMAIN headerJson.of
                 /\ \A i \in DOMAIN full.of :
                       Reads(full.of[i].is, headerJson.of[i].of, full.of[i])
            ELSE Reads(full.is, headerJson.of, full)

\* Fields a later fork adds, at any level, keep no answer from its readers
\* (dataclass.py, "ignored extra fields").
AdditionsIgnored == edited \subseteq {"extra"} => stage # "raised"
=============================================================================
