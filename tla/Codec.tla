------------------------------- MODULE Codec --------------------------------
(***************************************************************************)
(* Decode() and Encode() of langsvr/lsp for every type, and the life of a  *)
(* message: a program builds a C++ value, encodes it, the text reaches a   *)
(* peer, which decodes it into an object of its own, fresh or used before. *)
(*                                                                         *)
(* A C++ value is, by its type: an integer, string or Boolean; a real in   *)
(* halves; the index of an enumerator; a sequence for a vector or a tuple; *)
(* a function of names for a map; <<>> for an empty OneOf and <<i, v>> for *)
(* one that holds v as its alternative i; for a structure its own members  *)
(* (optional ones only when set) and, apart, the values of its bases.      *)
(***************************************************************************)
EXTENDS LspTypes, JsonValues
Seqs == INSTANCE SequencesExt

CONSTANTS
    Types,       \* the type that each name refers to
    AllTypes,    \* the types of messages, of all their parts, and so on
    TypesUsed,   \* the types whose messages are exchanged
    Values(_),   \* the values of a type that programs build
    Used(_),     \* the values a target may hold before it is decoded into
    PeerJson(_), \* JSON that a peer which is not langsvr sends as that type
    Rank(_),     \* the order in which C++ needs types to be complete
    AllNames(_), \* the names of the members of a structure, inherited ones too
    MaxNesting   \* a value has at most as many values inside each other

(* The overloads that are called for the parts of a type.  Each is what    *)
(* the operator that ends in Overload, or Initial, says for its type:      *)
(* Overloads states that, and a model gives the one as the other.          *)
CONSTANTS Default(_), Decode(_, _, _), Encode(_, _), Equal(_, _, _)

VARIABLES
    stage,   \* how far the message has come
    type,    \* its type
    value,   \* the value built
    json,    \* the JSON value encoded, then received
    target,  \* what the decoded object held before
    result   \* what Decode() returned and left in the object

vars == <<stage, type, value, json, target, result>>

-----------------------------------------------------------------------------
Resolve(name) == Types[name]

(* The properties of a structure: their names, those of the required ones, *)
(* and the property of a name.                                             *)
Names(s) == {s.props[i].name : i \in DOMAIN s.props}
Required(s) == {s.props[i].name : i \in {k \in DOMAIN s.props : ~s.props[k].optional}}
Property(s, n) == CHOOSE p \in {s.props[i] : i \in DOMAIN s.props} : p.name = n

(* lsp.h: what `T member{};` holds *)
Initial(t) ==
    CASE t[1] = "null" -> "null"
      [] t[1] = "boolean" -> FALSE
      [] t[1] \in {"integer", "uinteger", "decimal"} -> 0
      [] t[1] = "string" -> ""
      [] t[1] \in {"vector", "map", "oneof"} -> <<>>
      [] t[1] = "tuple" -> [i \in DOMAIN t[2] |-> Default(t[2][i])]
      [] t[1] = "enum" -> 1
      [] t[1] = "ref" -> Default(Resolve(t[2]))
      [] t[1] = "struct" ->
           [own |-> [n \in Required(t[2]) |-> Default(Property(t[2], n).type)],
            bases |-> [i \in DOMAIN t[2].bases |-> Default(Ref(t[2].bases[i]))]]

-----------------------------------------------------------------------------
(* Decode: whether it succeeded, and what the output then holds.  A        *)
(* failure may leave the output half written.                              *)

Decoded(out) == [ok |-> TRUE, out |-> out]
Refused(out) == [ok |-> FALSE, out |-> out]

(* decode.cc: a primitive is assigned from the accessor of its type *)
FromResult(r, out) == IF IsOk(r) THEN Decoded(Get(r)) ELSE Refused(out)

(* A part of a container: its place there, its type, whether it may be     *)
(* missing, and what Get() returned for it.                                *)
Part(place, t, optional, got) ==
    [place |-> place, type |-> t, optional |-> optional, got |-> got]

Put(container, place, v) ==
    [x \in DOMAIN container \cup {place} |-> IF x = place THEN v ELSE container[x]]

(* What a part is decoded into: an element, member or base in place, a new *)
(* entry of a map, or, if it is optional, an object apart.                 *)
Into(container, p) ==
    IF ~p.optional /\ p.place \in DOMAIN container THEN container[p.place] ELSE Default(p.type)

(* A variant of DecodePart: a part may be missing. *)
DecodePartLenient(container, p) ==
    LET r == Decode(p.type, Get(p.got), Into(container, p))
    IN  IF ~IsOk(p.got) THEN Decoded(container)
        ELSE [ok |-> r.ok, out |-> IF p.optional /\ ~r.ok THEN container
                                   ELSE Put(container, p.place, r.out)]

(* One part is decoded.  An optional one is then moved in; the others are  *)
(* in their place also when they failed.                                   *)
DecodePart(container, p) ==
    LET r == Decode(p.type, Get(p.got), Into(container, p))
    IN  IF ~IsOk(p.got) THEN [ok |-> p.optional, out |-> container]
        ELSE [ok |-> r.ok, out |-> IF p.optional /\ ~r.ok THEN container
                                   ELSE Put(container, p.place, r.out)]

(* The parts in order until one fails *)
Continue(before, p) == IF before.ok THEN DecodePart(before.out, p) ELSE before

DecodeParts(parts, container) ==
    LET after[k \in 0..Len(parts)] ==
            IF k = 0 THEN Decoded(container) ELSE Continue(after[k - 1], parts[k])
    IN  after[Len(parts)]

(* A variant of DecodeVector: the elements are not resized, new ones follow the old. *)
DecodeVectorAppends(t, j, out) ==
    IF Kind(j) # "array" THEN Refused(out)
    ELSE DecodeParts([i \in 1..Count(j) |-> Part(Len(out) + i, t, FALSE, Ok(Element(j, i)))],
                     [i \in 1..(Len(out) + Count(j)) |-> IF i <= Len(out) THEN out[i] ELSE Default(t)])

DecodeVector(t, j, out) ==
    IF Kind(j) # "array" THEN Refused(out)
    ELSE DecodeParts([i \in 1..Count(j) |-> Part(i, t, FALSE, Ok(Element(j, i)))],
                     [i \in 1..Count(j) |-> IF i <= Len(out) THEN out[i] ELSE Default(t)])

DecodeTuple(ts, j, out) ==
    IF Count(j) # Len(ts) \/ Kind(j) # "array" THEN Refused(out)
    ELSE DecodeParts([i \in 1..Len(ts) |-> Part(i, ts[i], FALSE, Ok(Element(j, i)))], out)

(* The map keeps the entries it held under other names. *)
DecodeMap(t, j, out) ==
    LET names == Seqs!SetToSeq(MemberNames(j))
    IN  IF Kind(j) # "object" THEN Refused(out)
        ELSE DecodeParts([i \in 1..Len(names) |-> Part(names[i], t, FALSE, Member(j, names[i]))],
                         out)

(* The first alternative that decodes into a fresh object is kept. *)
FirstOf(attempts, out) ==
    IF \A i \in DOMAIN attempts : ~attempts[i].ok THEN Refused(out)
    ELSE LET i == CHOOSE k \in DOMAIN attempts :
                      attempts[k].ok /\ \A m \in 1..(k - 1) : ~attempts[m].ok
         IN  Decoded(<<i, attempts[i].out>>)

DecodeOneOf(ts, j, out) == FirstOf([i \in 1..Len(ts) |-> Decode(ts[i], j, Default(ts[i]))], out)

(* The enumerator whose value was decoded *)
Enumerator(r, values, out) ==
    IF r.ok /\ \E i \in DOMAIN values : values[i] = r.out
    THEN Decoded(CHOOSE i \in DOMAIN values : values[i] = r.out) ELSE Refused(out)

DecodeEnum(e, j, out) == Enumerator(Decode(e[2], j, Default(e[2])), e[3], out)

MatchKind(j, want) == want = NoKind \/ Member(j, "kind") = Ok(JString(want))

(* The members of a structure, from the members of the object j *)
DecodeMembers(s, j, own) ==
    DecodeParts([i \in 1..Len(s.props) |->
                    LET p == s.props[i]
                    IN  Part(p.name, p.type, p.optional, Member(j, p.name))], own)

(* Its bases, each from the whole object *)
DecodeBases(s, j, bases) ==
    DecodeParts([i \in 1..Len(s.bases) |-> Part(i, Ref(s.bases[i]), FALSE, Ok(j))], bases)

(* The members, then the bases if these could be decoded *)
Assembled(mine, theirs) ==
    [ok |-> mine.ok /\ theirs.ok, out |-> [own |-> mine.out, bases |-> theirs.out]]

(* A variant of DecodeStruct: the members of the bases are not decoded. *)
DecodeStructNoBases(s, j, out) ==
    IF Kind(j) # "object" \/ ~MatchKind(j, s.kind) THEN Refused(out)
    ELSE Assembled(DecodeMembers(s, j, out.own), Decoded(out.bases))

DecodeStruct(s, j, out) ==
    LET mine == DecodeMembers(s, j, out.own)
    IN  IF Kind(j) # "object" \/ ~MatchKind(j, s.kind) THEN Refused(out)
        ELSE Assembled(mine, IF mine.ok THEN DecodeBases(s, j, out.bases) ELSE Refused(out.bases))

(* The overload for the type t *)
DecodeOverload(t, j, out) ==
    CASE t[1] = "null" -> FromResult(GetNull(j), out)
      [] t[1] = "boolean" -> FromResult(GetBool(j), out)
      [] t[1] = "integer" -> FromResult(GetI64(j), out)
      [] t[1] = "uinteger" -> FromResult(GetU64(j), out)
      [] t[1] = "decimal" -> FromResult(GetF64(j), out)
      [] t[1] = "string" -> FromResult(GetString(j), out)
      [] t[1] = "vector" -> DecodeVector(t[2], j, out)
      [] t[1] = "map" -> DecodeMap(t[2], j, out)
      [] t[1] = "tuple" -> DecodeTuple(t[2], j, out)
      [] t[1] = "oneof" -> DecodeOneOf(t[2], j, out)
      [] t[1] = "enum" -> DecodeEnum(t, j, out)
      [] t[1] = "struct" -> DecodeStruct(t[2], j, out)
      [] t[1] = "ref" -> Decode(Resolve(t[2]), j, out)

-----------------------------------------------------------------------------
(* Encode: the JSON value, or Aborted.  No overload returns a failure, but *)
(* Visit() of a OneOf that holds nothing returns a default constructed     *)
(* Result, on which the next comparison asserts.                           *)

Aborted == <<"aborted">>

Elements(encoded) ==
    IF \E i \in DOMAIN encoded : encoded[i] = Aborted THEN Aborted ELSE Array(encoded)

(* A variant of Visit: an empty OneOf is encoded as its first alternative. *)
VisitDefault(ts, v) ==
    IF v = <<>> THEN Encode(ts[1], Default(ts[1])) ELSE Encode(ts[v[1]], v[2])

Visit(ts, v) == IF v = <<>> THEN Aborted ELSE Encode(ts[v[1]], v[2])

(* The members of a structure in groups: its "kind", its own, and those of *)
(* each base, which are the members that the base alone is encoded as.     *)
KindMember(s) == [n \in IF s.kind = NoKind THEN {} ELSE {"kind"} |-> JString(s.kind)]
OwnMembers(s, v) == [n \in DOMAIN v.own |-> Encode(Property(s, n).type, v.own[n])]
EncodedBases(s, v) == [i \in 1..Len(s.bases) |-> Encode(Ref(s.bases[i]), v.bases[i])]

(* A variant of EncodeMembers: the members of the bases are not encoded. *)
EncodeMembersOwn(s, v) == <<KindMember(s), OwnMembers(s, v)>>

EncodeMembers(s, v) ==
    <<KindMember(s), OwnMembers(s, v)>>
    \o [i \in 1..Len(s.bases) |-> EncodedBases(s, v)[i][2]]

EncodeStruct(s, v) ==
    IF \/ \E n \in DOMAIN v.own : OwnMembers(s, v)[n] = Aborted
       \/ \E i \in DOMAIN s.bases : EncodedBases(s, v)[i] = Aborted
    THEN Aborted ELSE Object(EncodeMembers(s, v))

EncodeMap(t, v) ==
    LET encoded == [n \in DOMAIN v |-> Encode(t, v[n])]
    IN  IF \E n \in DOMAIN v : encoded[n] = Aborted THEN Aborted ELSE Object(<<encoded>>)

(* Builder::Create and the overloads of encode.cc *)
EncodeOverload(t, v) ==
    CASE t[1] = "null" -> JNull
      [] t[1] = "boolean" -> JBool(v)
      [] t[1] = "integer" -> JI64(v)
      [] t[1] = "uinteger" -> JU64(v)
      [] t[1] = "decimal" -> JF64(v)
      [] t[1] = "string" -> JString(v)
      [] t[1] = "vector" -> Elements([i \in 1..Len(v) |-> Encode(t[2], v[i])])
      [] t[1] = "map" -> EncodeMap(t[2], v)
      [] t[1] = "tuple" -> Elements([i \in 1..Len(t[2]) |-> Encode(t[2][i], v[i])])
      [] t[1] = "oneof" -> Visit(t[2], v)
      [] t[1] = "enum" -> Encode(t[2], t[3][v])
      [] t[1] = "struct" -> EncodeStruct(t[2], v)
      [] t[1] = "ref" -> Encode(Resolve(t[2]), v)

-----------------------------------------------------------------------------
(* operator== *)
EqualOverload(t, a, b) ==
    CASE t[1] = "vector" -> Len(a) = Len(b) /\ \A i \in DOMAIN a : Equal(t[2], a[i], b[i])
      [] t[1] = "map" -> DOMAIN a = DOMAIN b /\ \A n \in DOMAIN a : Equal(t[2], a[n], b[n])
      [] t[1] = "tuple" -> \A i \in DOMAIN a : Equal(t[2][i], a[i], b[i])
      [] t[1] = "oneof" -> a # <<>> /\ b # <<>> /\ a[1] = b[1] /\ Equal(t[2][a[1]], a[2], b[2])
      [] t[1] = "struct" ->
           /\ DOMAIN a.own = DOMAIN b.own
           /\ \A n \in DOMAIN a.own : Equal(Property(t[2], n).type, a.own[n], b.own[n])
           /\ \A i \in DOMAIN t[2].bases : Equal(Ref(t[2].bases[i]), a.bases[i], b.bases[i])
      [] t[1] = "ref" -> Equal(Resolve(t[2]), a, b)
      [] OTHER -> a = b

(* The overload called is the one for the type. *)
Overloads ==
    /\ \A t \in AllTypes : /\ Default(t) = Initial(t)
                           /\ \A j, out : Decode(t, j, out) = DecodeOverload(t, j, out)
                           /\ \A v : Encode(t, v) = EncodeOverload(t, v)
                           /\ \A a, b : Equal(t, a, b) = EqualOverload(t, a, b)
    /\ \A j : Reparsed(j) = Reread(j)

-----------------------------------------------------------------------------
(* The life of a message *)

Init ==
    /\ stage = "idle"
    /\ type = Null
    /\ value = <<>>
    /\ json = JNull
    /\ target = "null"
    /\ result = Refused("null")

(* A program builds a value. *)
Build ==
    /\ stage = "idle"
    /\ stage' = "built"
    /\ \E t \in TypesUsed : type' = t /\ \E v \in Values(t) : value' = <<v>>
    /\ UNCHANGED <<json, target, result>>

EncodeValue ==
    /\ stage = "built"
    /\ json' = Encode(type, value[1])
    /\ stage' = IF json' = Aborted THEN "aborted" ELSE "encoded"
    /\ UNCHANGED <<type, value, target, result>>

(* Json() on this side, Parse() on the other *)
Receive ==
    /\ stage = "encoded"
    /\ json' = Reparsed(json)
    /\ stage' = "received"
    /\ UNCHANGED <<type, value, target, result>>

(* The message comes from a peer that is not langsvr. *)
ReceiveFromPeer ==
    /\ stage = "idle"
    /\ stage' = "received"
    /\ \E t \in TypesUsed : type' = t /\ json' \in PeerJson(t)
    /\ UNCHANGED <<value, target, result>>

(* The receiver decodes into an object that is fresh or was used before. *)
DecodeValue ==
    /\ stage = "received"
    /\ stage' = "decoded"
    /\ \E o \in {Default(type)} \cup Used(type) :
          /\ target' = o
          /\ result' = Decode(type, json, o)
    /\ UNCHANGED <<type, value, json>>

NextMessage ==
    /\ stage \in {"decoded", "aborted"}
    /\ stage' = "idle"
    /\ type' = Null
    /\ value' = <<>>
    /\ json' = JNull
    /\ target' = "null"
    /\ result' = Refused("null")

Next ==
    \/ Build
    \/ ReceiveFromPeer
    \/ EncodeValue
    \/ Receive
    \/ DecodeValue
    \/ NextMessage

Spec == Init /\ [][Next]_vars

-----------------------------------------------------------------------------
(* What is inside values.  Besides the C++ types, a JSON value is of the   *)
(* types Json, any JSON value, and Within(b, old), what says nothing but   *)
(* what b says or, where b is silent, old does.                            *)

Json == <<"json">>
Within(b, old) == <<"within", b, old>>

Nothing == <<"nothing">>
Container(j) == Kind(j) \in {"array", "object"}
At(j, i) == IF Container(j) /\ i \in DOMAIN j[2] THEN j[2][i] ELSE Nothing

(* What may be said under i: no array or object is mixed with anything else. *)
Below(b, old, i) ==
    IF At(b, i) = Nothing THEN Within(At(old, i), Nothing)
    ELSE Within(At(b, i), IF Kind(old) = Kind(b) THEN At(old, i) ELSE Nothing)

(* The values directly inside v, each with its type *)
Inside(t, v) ==
    CASE t[1] \in {"vector", "map"} -> {<<t[2], v[i]>> : i \in DOMAIN v}
      [] t[1] = "tuple" -> {<<t[2][i], v[i]>> : i \in DOMAIN t[2] \cap DOMAIN v}
      [] t[1] = "oneof" -> IF v = <<>> THEN {} ELSE {<<t[2][v[1]], v[2]>>}
      [] t[1] = "struct" ->
           {<<Property(t[2], n).type, v.own[n]>> : n \in Names(t[2]) \cap DOMAIN v.own}
           \cup {<<Ref(t[2].bases[i]), v.bases[i]>> : i \in DOMAIN t[2].bases}
      [] t[1] = "ref" -> {<<Resolve(t[2]), v>>}
      [] t[1] = "json" -> IF Container(v) THEN {<<Json, v[2][i]>> : i \in DOMAIN v[2]} ELSE {}
      [] t[1] = "within" ->
           IF Container(v) THEN {<<Below(t[2], t[3], i), v[2][i]>> : i \in DOMAIN v[2]} ELSE {}
      [] OTHER -> {}

(* The values n deep inside v, and all that are at most that deep *)
Deeper(r) ==
    LET at == UNION {Inside(p[1], p[2]) : p \in r.at}
    IN  [at |-> at, all |-> r.all \cup at]

Depths(t, v) ==
    LET nest[n \in Nat] == IF n = 0 THEN [at |-> {<<t, v>>}, all |-> {<<t, v>>}]
                           ELSE Deeper(nest[n - 1])
    IN  nest

Parts(t, v) == Depths(t, v)[MaxNesting].all
Nested(t, v) == Depths(t, v)[MaxNesting].at = {}

(* v is a value of its type, but for what is inside *)
WellTyped(t, v) ==
    CASE t[1] = "null" -> v = "null"
      [] t[1] = "boolean" -> v \in BOOLEAN
      [] t[1] = "integer" -> v \in -MaxI64 - 1 .. MaxI64
      [] t[1] = "uinteger" -> v \in 0..MaxU64
      [] t[1] = "decimal" -> v \in Int
      [] t[1] = "string" -> v \in STRING
      [] t[1] = "vector" -> IsSequence(v)
      [] t[1] = "map" -> IsMap(v)
      [] t[1] = "tuple" -> IsSequence(v) /\ Len(v) = Len(t[2])
      [] t[1] = "oneof" -> v = <<>> \/ (v[1] \in DOMAIN t[2] /\ v = <<v[1], v[2]>>)
      [] t[1] = "enum" -> v \in DOMAIN t[3]
      [] t[1] = "struct" ->
           /\ v = [own |-> v.own, bases |-> v.bases]
           /\ IsMap(v.own) /\ Required(t[2]) \subseteq DOMAIN v.own /\ DOMAIN v.own \subseteq Names(t[2])
           /\ IsSequence(v.bases) /\ Len(v.bases) = Len(t[2].bases)
      [] t[1] = "ref" -> TRUE
      [] t[1] = "json" -> IsJson(v)
      [] t[1] = "within" ->
           CASE Kind(v) \in {"int", "uint", "real"} -> GetF64(v) = GetF64(t[2])
             [] Kind(v) = "array" -> Kind(t[2]) = "array" /\ Count(v) = Count(t[2])
             [] Kind(v) = "object" -> Kind(t[2]) = "object"
             [] OTHER -> v = t[2]

Typed(t, v) == \A p \in Parts(t, v) : WellTyped(p[1], p[2])

-----------------------------------------------------------------------------
(* Assumptions on the types, the values and the messages *)

(* The types that C++ needs complete for a type to be *)
Needs(t) ==
    CASE t[1] \in {"tuple", "oneof"} -> {t[2][i] : i \in DOMAIN t[2]}
      [] t[1] = "enum" -> {t[2]}
      [] t[1] = "struct" ->
           {Property(t[2], n).type : n \in Required(t[2])}
           \cup {Ref(t[2].bases[i]) : i \in DOMAIN t[2].bases}
      [] t[1] = "ref" -> {Resolve(t[2])}
      [] OTHER -> {}

StructOf(s) ==
    /\ s = [props |-> s.props, bases |-> s.bases, kind |-> s.kind]
    /\ IsSequence(s.props)
    /\ \A i \in DOMAIN s.props :
          /\ s.props[i] \in [name : STRING, type : AllTypes, optional : BOOLEAN]
          /\ \A k \in DOMAIN s.props : s.props[i].name = s.props[k].name => i = k
    /\ IsSequence(s.bases)
    /\ \A i \in DOMAIN s.bases :
          Ref(s.bases[i]) \in AllTypes /\ Resolve(s.bases[i])[1] = "struct"
    /\ s.kind \in STRING

IsType(t) ==
    \/ t[1] \in {"null", "boolean", "integer", "uinteger", "decimal", "string"}
    \/ t[1] \in {"vector", "map"} /\ t[2] \in AllTypes
    \/ t[1] \in {"tuple", "oneof"} /\ IsSequence(t[2]) /\ \A i \in DOMAIN t[2] : t[2][i] \in AllTypes
    \/ /\ t[1] = "enum" /\ t[2] \in AllTypes \cap {Integer, Uinteger, String}
       /\ IsSequence(t[3]) /\ 1 \in DOMAIN t[3]
       /\ \A i \in DOMAIN t[3] :
             WellTyped(t[2], t[3][i]) /\ \A k \in DOMAIN t[3] : t[3][i] = t[3][k] => i = k
    \/ t[1] = "struct" /\ StructOf(t[2])
    \/ t[1] = "ref" /\ Resolve(t[2]) \in AllTypes

(* No two members of a structure have the same name, inherited or not, but *)
(* for its "kind", which may also be a required string of its first base.  *)
BaseNames(s, i) == AllNames(Resolve(s.bases[i])[2])
Inherited(s) == UNION {BaseNames(s, i) : i \in DOMAIN s.bases}

NamesApart(s) ==
    /\ AllNames(s) = DOMAIN KindMember(s) \cup Names(s) \cup Inherited(s)
    /\ Names(s) \cap (DOMAIN KindMember(s) \cup Inherited(s)) = {}
    /\ \A i, k \in DOMAIN s.bases : i # k => BaseNames(s, i) \cap BaseNames(s, k) = {}
    /\ s.kind # NoKind /\ "kind" \in Inherited(s) =>
          LET b == Resolve(s.bases[1])[2]
          IN  /\ 1 \in DOMAIN s.bases /\ "kind" \in Required(b)
              /\ Property(b, "kind").type = String

(* The provers do not know it of a string in quotes. *)
ASSUME StringsAssumption == {"", "kind"} \subseteq STRING

ASSUME NestingAssumption == MaxNesting \in Nat

ASSUME TypesAssumption == TypesUsed \subseteq AllTypes /\ \A t \in AllTypes : IsType(t)

ASSUME RankAssumption ==
    \A t \in AllTypes : Rank(t) \in Nat /\ \A u \in Needs(t) : Rank(u) < Rank(t)

ASSUME NamesAssumption == \A t \in AllTypes : t[1] = "struct" => NamesApart(t[2])

ASSUME ValuesAssumption ==
    \A t \in TypesUsed : \A v \in Values(t) \cup Used(t) : Nested(t, v) /\ Typed(t, v)

ASSUME PeerAssumption ==
    \A t \in TypesUsed : \A j \in PeerJson(t) : Nested(Json, j) /\ Typed(Json, j)

-----------------------------------------------------------------------------
(* Properties *)

(* Whatever JSON arrives, and whether or not it is accepted, Decode()      *)
(* leaves a value of its output's type: numbers in the range of theirs,    *)
(* enumerators that exist, every required member.                          *)
CodecTypeOK ==
    /\ stage \in {"idle", "built", "encoded", "received", "decoded", "aborted"}
    /\ stage = "decoded" => Typed(type, result.out)

(* The base of CreateFile, RenameFile and DeleteFile has a "kind" of its own. *)
InheritsKind(s) ==
    \E i \in DOMAIN s.bases : \E k \in DOMAIN Resolve(s.bases[i])[2].props :
        Resolve(s.bases[i])[2].props[k].name = "kind"

KindsAgree(t, v) ==
    \A p \in Parts(t, v) :
        p[1][1] = "struct" /\ p[1][2].kind # NoKind /\ InheritsKind(p[1][2])
        => p[2].bases[1].own["kind"] = p[1][2].kind

(* No OneOf inside v has an alternative before its own that would take     *)
(* what its own is encoded as.                                             *)
FirstFits(t, v) ==
    \A p \in Parts(t, v) :
        p[1][1] = "oneof" => \A i \in 1..(p[2][1] - 1) :
            ~Decode(p[1][2][i], Reparsed(Encode(p[1], p[2])), Default(p[1][2][i])).ok

FreshlyDecoded == stage = "decoded" /\ target = Default(type)

(* A message decodes into a value equal to the one that was sent, when no  *)
(* OneOf in it is taken for an earlier alternative and no inherited "kind" *)
(* contradicts its structure: every other member of every type survives    *)
(* the two directions of src/lsp/lsp.cc, in spite of overlapping number    *)
(* types, optional members and bases encoded after the members.            *)
RoundTrip ==
    FreshlyDecoded /\ value # <<>> /\ KindsAgree(type, value[1]) /\ FirstFits(type, value[1])
    => result.ok /\ Equal(type, result.out, value[1])

(* Encode() dies exactly on a value with a OneOf that holds nothing, the   *)
(* state every required OneOf member is constructed in.                    *)
AbortsOnEmptyOneOf ==
    stage \in {"encoded", "aborted"} =>
        (stage = "aborted" <=> \E p \in Parts(type, value[1]) : p[1][1] = "oneof" /\ p[2] = <<>>)

(* A successful Decode() into a fresh object keeps nothing that was not in *)
(* the message, also when the message came from a peer with members        *)
(* missing, null or of other types: no default stands in for a required    *)
(* member that is absent.                                                  *)
NothingInvented ==
    FreshlyDecoded /\ result.ok => Typed(Within(json, Nothing), Encode(type, result.out))

(* Decoding into an object that was used before may keep what the message  *)
(* does not mention (optional members, map entries, members of vector      *)
(* elements), but never in place of what it does mention.  An object with  *)
(* an empty OneOf inside has no encoding to compare with.                  *)
StaleOnlyWhereSilent ==
    stage = "decoded" /\ result.ok /\ target # Default(type) /\ Encode(type, target) # Aborted =>
        Typed(Within(json, Encode(type, target)), Encode(type, result.out))

(* What was decoded can be passed on: its encoding is accepted again as    *)
(* the same type and gains nothing on the way, even where the second       *)
(* receiver takes another alternative of a OneOf than the first did, since *)
(* the members the first alternative had refused are gone by then.         *)
Accepted(j, again) == again.ok /\ Typed(Within(j, Nothing), Encode(type, again.out))
AcceptedAgain(j) == Accepted(j, Decode(type, j, Default(type)))
Relayable ==
    FreshlyDecoded /\ result.ok => AcceptedAgain(Reparsed(Encode(type, result.out)))

-----------------------------------------------------------------------------
(* Properties that the code does not have *)

(* Deserialization loses nothing of a message of ours.  It does in two     *)
(* cases, the two that RoundTrip excepts.  A OneOf may list an alternative *)
(* before one that has all its members: a TextEdit takes an                *)
(* AnnotatedTextEdit and drops its annotation, and the memberless options  *)
(* of a provider take its registration options.  And the empty "kind" of a *)
(* ResourceOperation replaces that of the CreateFile derived from it,      *)
(* which is then refused.                                                  *)
NothingLost ==
    FreshlyDecoded /\ value # <<>> => result.ok /\ Typed(Within(Encode(type, result.out), Nothing), json)

(* What is sent as a structure with a kKind says that kind.  A CreateFile  *)
(* says the kind of its base, which Object() puts in the place of "create".*)
KindIdentifies ==
    stage = "encoded" /\ type[1] = "ref" /\ Resolve(type[2])[1] = "struct" =>
        LET s == Resolve(type[2])[2]
        IN  s.kind # NoKind => Member(json, "kind") = Ok(JString(s.kind))

(* No Result is read that was never given a value, the assertion in        *)
(* Result::Validate().  Encode() of an empty OneOf reads one.              *)
ResultsAreValid == stage # "aborted"

(* A FileSystemWatcher may say the value that its "kind" defaults to, 7.   *)
(* WatchKind is decoded as one of its enumerators, 1, 2 and 4.             *)
WatchKindDefault ==
    FreshlyDecoded /\ type = Ref("FileSystemWatcher") /\ Member(json, "kind") = Ok(JI64(7)) =>
        LET silent == <<"object", [n \in MemberNames(json) \ {"kind"} |-> json[2][n]]>>
        IN  Decode(type, silent, target).ok => result.ok

=============================================================================
