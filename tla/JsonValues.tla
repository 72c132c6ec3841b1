----------------------------- MODULE JsonValues -----------------------------
(***************************************************************************)
(* The JSON values of langsvr/json as src/json/jsoncpp.cc implements them, *)
(* over values tagged by the type jsoncpp stores.  A real is kept in       *)
(* halves, so that 1.0 (integral) and 0.5 (not) are told apart.  The 64    *)
(* bit ranges are scaled down to what TLC's integers hold: MaxI64 and      *)
(* MaxU64 stand for 2^63 - 1 and 2^64 - 1.                                 *)
(***************************************************************************)
EXTENDS Integers, Sequences, FiniteSets

MaxI64 == 2^29 - 1
MaxU64 == 2^30 - 1

(* Result<T>: success with a value, or a failure (its reason is left out) *)
Ok(x) == <<"ok", x>>
Fail == <<"fail">>
IsOk(r) == r[1] = "ok"
Get(r) == r[2]

-----------------------------------------------------------------------------
(* Builder *)

JNull == <<"null">>
JBool(b) == <<"bool", b>>
JI64(n) == <<"int", n>>
JU64(n) == <<"uint", n>>
JF64(halves) == <<"real", halves>>
JString(s) == <<"string", s>>
Array(elements) == <<"array", elements>>

(* Object: members come in groups, functions of their names.  Since each   *)
(* is stored as object[member.name] = ..., a later group replaces what an  *)
(* earlier one gave a name.                                                *)
Object(groups) ==
    LET LastWith(n) == CHOOSE i \in DOMAIN groups :
            n \in DOMAIN groups[i] /\ \A k \in DOMAIN groups : n \in DOMAIN groups[k] => k <= i
    IN  <<"object", [n \in UNION {DOMAIN groups[i] : i \in DOMAIN groups} |->
                        groups[LastWith(n)][n]]>>

-----------------------------------------------------------------------------
(* Value *)

Kind(j) == j[1]

Integral(j) == Kind(j) \in {"int", "uint"} \/ (Kind(j) = "real" /\ j[2] % 2 = 0)
AsInteger(j) == IF Kind(j) = "real" THEN j[2] \div 2 ELSE j[2]

GetNull(j) == IF Kind(j) = "null" THEN Ok("null") ELSE Fail
GetBool(j) == IF Kind(j) = "bool" THEN Ok(j[2]) ELSE Fail
GetString(j) == IF Kind(j) = "string" THEN Ok(j[2]) ELSE Fail

(* A variant of GetU64: the sign and the range are not checked. *)
GetU64Unchecked(j) == IF Integral(j) THEN Ok(AsInteger(j)) ELSE Fail

(* I64 and U64 take a number of any stored type that is integral and in    *)
(* range; F64 takes any number.                                            *)
GetI64(j) == IF Integral(j) /\ AsInteger(j) \in -MaxI64 - 1 .. MaxI64
             THEN Ok(AsInteger(j)) ELSE Fail
GetU64(j) == IF Integral(j) /\ AsInteger(j) \in 0 .. MaxU64 THEN Ok(AsInteger(j)) ELSE Fail
GetF64(j) == CASE Kind(j) = "real" -> Ok(j[2])
               [] Kind(j) \in {"int", "uint"} -> Ok(2 * j[2])
               [] OTHER -> Fail

Count(j) == IF Kind(j) = "array" THEN Len(j[2]) ELSE 0
Element(j, i) == j[2][i]

Has(j, name) == Kind(j) = "object" /\ name \in DOMAIN j[2]
MemberNames(j) == DOMAIN j[2]
Member(j, name) == IF Has(j, name) THEN Ok(j[2][name]) ELSE Fail

(* What the peer's Parse() makes of the text that Json() wrote: a          *)
(* nonnegative number that fits is stored as signed, everything else is    *)
(* read back as it was.  Reparsed is the same of the values inside.        *)
CONSTANT Reparsed(_)

Reread(j) ==
    CASE Kind(j) = "uint" /\ j[2] <= MaxI64 -> JI64(j[2])
      [] Kind(j) = "array" -> Array([i \in DOMAIN j[2] |-> Reparsed(j[2][i])])
      [] Kind(j) = "object" -> <<"object", [n \in DOMAIN j[2] |-> Reparsed(j[2][n])]>>
      [] OTHER -> j

-----------------------------------------------------------------------------
(* The shapes of data: sequences, and functions of finitely many names     *)
IsSequence(s) == Len(s) \in Nat /\ s = [i \in 1..Len(s) |-> s[i]]
IsMap(m) == IsFiniteSet(DOMAIN m) /\ DOMAIN m \subseteq STRING /\ m = [n \in DOMAIN m |-> m[n]]

(* What jsoncpp can store, but for what is inside *)
IsJson(j) ==
    CASE Kind(j) = "null" -> j = JNull
      [] Kind(j) = "bool" -> j[2] \in BOOLEAN /\ j = JBool(j[2])
      [] Kind(j) = "int" -> j[2] \in -MaxI64 - 1 .. MaxI64 /\ j = JI64(j[2])
      [] Kind(j) = "uint" -> j[2] \in 0..MaxU64 /\ j = JU64(j[2])
      [] Kind(j) = "real" -> j[2] \in Int /\ j = JF64(j[2])
      [] Kind(j) = "string" -> j[2] \in STRING /\ j = JString(j[2])
      [] Kind(j) = "array" -> IsSequence(j[2]) /\ j = Array(j[2])
      [] Kind(j) = "object" -> IsMap(j[2]) /\ j = <<"object", j[2]>>
      [] OTHER -> FALSE

=============================================================================
