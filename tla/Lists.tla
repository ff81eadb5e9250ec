-------------------------------- MODULE Lists --------------------------------
(***************************************************************************)
(* Array.prototype.filter and obj[key] = value, in a form that can be      *)
(* reasoned about: SelectSeq, :> and @@ of the standard modules have no    *)
(* definitions a proof can expand.                                         *)
(***************************************************************************)
EXTENDS Naturals, Sequences

\* The elements of s that are in good, in their order.
Only(s, good) ==
  LET kept[n \in 0 .. Len(s)] ==
        IF n = 0 THEN << >>
        ELSE IF s[n] \in good THEN Append(kept[n - 1], s[n]) ELSE kept[n - 1]
  IN kept[Len(s)]

\* The object with a property set, be it there before or not.
With(object, key, value) ==
  [k \in {key} \cup DOMAIN object |-> IF k = key THEN value ELSE object[k]]
=============================================================================
