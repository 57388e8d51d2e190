----------------------------- MODULE SymbolIndex -----------------------------
(***************************************************************************)
(* symbolicate/windows.rs: the index of the public symbols of a PDB, and   *)
(* the search for the symbol that an address lies in.  A public is its     *)
(* place relative to the load base (rva) and its name.                     *)
(***************************************************************************)
EXTENDS Integers, Sequences, FiniteSets, FiniteSetsExt

CONSTANTS
    RvaWidth,     \* 2^32: addresses are masked to so many values
    Names,        \* names of symbols
    PublicLists,  \* contents of PDBs: sequences of publics, in any order
    Targets       \* addresses to search for

PublicSymbol == [rva : Nat, name : Names]

ASSUME RvaAssumption   == RvaWidth \in Nat \ {0} /\ Targets \subseteq Nat
ASSUME ListsAssumption == PublicLists \subseteq Seq(PublicSymbol)

\* The elements of a set of numbers, each once and in ascending order.
Ascending(S) == CHOOSE s \in [1 .. Cardinality(S) -> S] :
                   \A j, k \in 1 .. Cardinality(S) : j < k => s[j] < s[k]

Rvas(publics) == {publics[i].rva : i \in DOMAIN publics}

\* The first of the publics at one place.
First(publics, r) == Min({i \in DOMAIN publics : publics[i].rva = r})

\* sort_by_key is stable, and dedup_by_key keeps the first of equal rvas.
build_index(publics) ==
    LET rvas == Ascending(Rvas(publics))
    IN [k \in DOMAIN rvas |-> publics[First(publics, rvas[k])]]

\* The standard library's search: Ok with the place of the key, counted from 0,
\* or Err with the place where it would have to be inserted.
binary_search(index, rva) ==
    LET smaller == Cardinality({k \in DOMAIN index : index[k].rva < rva})
    IN [ok |-> \E k \in DOMAIN index : index[k].rva = rva, at |-> smaller]

\* Mutant: the symbol after the address.
search_after(index, address) ==
    LET found == binary_search(index, address % RvaWidth)
    IN IF found.at >= Len(index) THEN << >> ELSE <<index[found.at + 1].name>>

\* The name found for an address, or none: Ok(i) gives entry i, Err(i) the entry
\* before the place of insertion, Err(0) nothing.
search(index, address) ==
    LET found == binary_search(index, address % RvaWidth)
    IN IF found.ok          THEN <<index[found.at + 1].name>>
       ELSE IF found.at = 0 THEN << >>
       ELSE <<index[found.at].name>>

-----------------------------------------------------------------------------
(* Reference.                                                                *)

\* Reference definition, without an index: the first of the names at the last
\* place that does not lie after the masked address.
Covering(publics, address) ==
    LET begun   == {i \in DOMAIN publics : publics[i].rva <= address % RvaWidth}
        last(i) == \A j \in begun : publics[j].rva <= publics[i].rva
        first(i) == \A j \in begun : publics[j].rva = publics[i].rva => i <= j
    IN {publics[i].name : i \in {i \in begun : last(i) /\ first(i)}}

WrongAnswers ==
    {x \in PublicLists \X Targets :
       LET answer == search(build_index(x[1]), x[2])
       IN {answer[k] : k \in DOMAIN answer} # Covering(x[1], x[2])}
=============================================================================
