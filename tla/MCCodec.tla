------------------------------ MODULE MCCodec -------------------------------
(***************************************************************************)
(* Codec over every structure, enumeration, alias and message result of    *)
(* langsvr/lsp.  The values of a type differ from one plain value, its     *)
(* witness, in one place at a time, to the depth Depth; the JSON of other  *)
(* peers differs from a langsvr message in one member.                     *)
(***************************************************************************)
EXTENDS Codec, LspMessages, TLC
LOCAL Sets == INSTANCE FiniteSetsExt

CONSTANT Depth  \* how many structures or containers deep a difference may be

(* The overloads that are called are those of Codec.  The LET keeps TLC,   *)
(* when it counts costs, from unfolding them into one another.             *)
MCDefault(t) == LET initial == Initial(t) IN initial
MCDecode(t, j, out) == LET overload == DecodeOverload(t, j, out) IN overload
MCEncode(t, v) == LET overload == EncodeOverload(t, v) IN overload
MCEqual(t, a, b) == LET overload == EqualOverload(t, a, b) IN overload
MCReparsed(j) == LET reread == Reread(j) IN reread

WithKind(s, base) ==
    IF s.kind # NoKind /\ "kind" \in DOMAIN base.own
    THEN [base EXCEPT !.own["kind"] = s.kind] ELSE base

(* Containers empty, each OneOf its first alternative, an inherited "kind" *)
(* that of the structure, and optional members unset: the witness.  When   *)
(* full, optional members are set and vectors have an element.             *)
RECURSIVE Plain(_, _)
Plain(t, full) ==
    CASE t[1] = "oneof" -> <<1, Plain(t[2][1], FALSE)>>
      [] t[1] = "tuple" -> [i \in DOMAIN t[2] |-> Plain(t[2][i], FALSE)]
      [] t[1] = "vector" /\ full -> <<Plain(t[2], TRUE)>>
      [] t[1] = "ref" -> Plain(Resolve(t[2]), full)
      [] t[1] = "struct" ->
           [own |-> [n \in IF full THEN Names(t[2]) ELSE Required(t[2]) |->
                        Plain(Property(t[2], n).type, FALSE)],
            bases |-> [i \in DOMAIN t[2].bases |->
                          WithKind(t[2], Plain(Ref(t[2].bases[i]), full))]]
      [] OTHER -> Default(t)

Witness(t) == Plain(t, FALSE)
Full(t) == Plain(t, TRUE)

Own(v, n, member) == [v EXCEPT !.own = (n :> member) @@ v.own]
Twice(v) == <<v, v>>

(* The values of the type t that differ from its witness w, at most d      *)
(* structures or containers deep                                           *)
RECURSIVE Samples(_, _)
Around(t, d, w) ==
    CASE t[1] = "vector" ->
           {<<>>, Twice(Witness(t[2]))} \cup {<<v>> : v \in Samples(t[2], d - 1)}
      [] t[1] = "map" -> {<<>>} \cup {[n \in {"n"} |-> v] : v \in Samples(t[2], d - 1)}
      [] t[1] = "tuple" ->
           UNION {{[w EXCEPT ![i] = v] : v \in Samples(t[2][i], d - 1)} : i \in DOMAIN t[2]}
      [] t[1] = "struct" ->
           {w, Full(t)}
           \cup UNION {{Own(w, p.name, v) : v \in Samples(p.type, d - 1)} :
                       p \in {t[2].props[i] : i \in DOMAIN t[2].props}}
           \cup UNION {{[w EXCEPT !.bases[i] = v] : v \in Samples(Ref(t[2].bases[i]), d - 1)} :
                       i \in DOMAIN t[2].bases}
      [] OTHER -> {w}

Samples(t, d) ==
    CASE t[1] = "boolean" -> BOOLEAN
      [] t[1] = "integer" -> {-1, 0, MaxI64}
      [] t[1] = "uinteger" -> {0, 1, MaxI64 + 1}
      [] t[1] = "decimal" -> {0, 1, 2}
      [] t[1] = "string" -> {"", "s"}
      [] t[1] = "enum" -> DOMAIN t[3]
      [] t[1] = "ref" -> Samples(Resolve(t[2]), d)
      [] t[1] = "oneof" -> {<<>>} \cup UNION {{<<i, v>> : v \in Samples(t[2][i], d)} : i \in DOMAIN t[2]}
      [] d = 0 -> {Witness(t)}
      [] OTHER -> Around(t, d, Witness(t))

MCTypes ==
    {Ref(n) : n \in DOMAIN LspTable}
    \cup {r.success : r \in Requests} \cup ({r.failure : r \in Requests} \ {Void})

RECURSIVE Terms(_)
Terms(t) ==
    {t} \cup CASE t[1] \in {"vector", "map", "enum"} -> Terms(t[2])
               [] t[1] \in {"tuple", "oneof"} -> UNION {Terms(t[2][i]) : i \in DOMAIN t[2]}
               [] t[1] = "struct" ->
                    UNION {Terms(t[2].props[i].type) : i \in DOMAIN t[2].props}
                    \cup {Ref(t[2].bases[i]) : i \in DOMAIN t[2].bases}
               [] OTHER -> {}

MCAllTypes == UNION {Terms(t) : t \in MCTypes \cup {LspTable[n] : n \in DOMAIN LspTable}}

RECURSIVE MCRank(_)
MCRank(t) == IF Needs(t) = {} THEN 0 ELSE 1 + Sets!Max({MCRank(u) : u \in Needs(t)})

RECURSIVE MCAllNames(_)
MCAllNames(s) ==
    DOMAIN KindMember(s) \cup Names(s)
    \cup UNION {MCAllNames(Resolve(s.bases[i])[2]) : i \in DOMAIN s.bases}

MCValues(t) == Samples(t, Depth)

MCUsed(t) == {Full(t)}

(* JSON that is of no use to most types, and some that is to a few *)
Odd == {JNull, JString("s"), JI64(7), JI64(-1), JF64(2), Array(<<>>), <<"object", <<>>>>}

(* The properties of a structure, its own and inherited *)
RECURSIVE AllProps(_)
AllProps(s) ==
    {s.props[i] : i \in DOMAIN s.props}
    \cup UNION {AllProps(Resolve(s.bases[i])[2]) : i \in DOMAIN s.bases}

Without(j, n) == <<"object", [m \in MemberNames(j) \ {n} |-> j[2][m]]>>
With(j, n, member) == <<"object", (n :> member) @@ j[2]>>

(* The object j with a member unknown to langsvr, gone, or odd *)
Changed(j) ==
    {j, With(j, "unknown", JNull)}
    \cup {Without(j, n) : n \in MemberNames(j)}
    \cup {With(j, n, o) : n \in MemberNames(j), o \in Odd}

FullJson(t) == Reparsed(Encode(t, Full(t)))

(* JSON for the type t with one thing changed, at most d containers deep,  *)
(* and any alternative of a OneOf                                          *)
RECURSIVE Twisted(_, _)
TwistedStruct(full, props, d) ==
    Changed(full)
    \cup UNION {{With(full, p.name, j) : j \in Twisted(p.type, d - 1)} : p \in props}

Twisted(t, d) ==
    CASE t[1] = "ref" -> Twisted(Resolve(t[2]), d)
      [] t[1] = "oneof" -> UNION {Twisted(t[2][i], d) : i \in DOMAIN t[2]}
      [] t[1] = "vector" /\ d > 0 -> {Array(<<j>>) : j \in Twisted(t[2], d - 1) \cup Odd}
      [] t[1] = "map" /\ d > 0 -> {<<"object", [n \in {"n"} |-> j]>> : j \in Twisted(t[2], d - 1)}
      [] t[1] = "struct" /\ d > 0 -> TwistedStruct(FullJson(t), AllProps(t[2]), d)
      [] OTHER -> {FullJson(t)}

MCPeerJson(t) == Odd \cup Twisted(t, Depth)

=============================================================================
