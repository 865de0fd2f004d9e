---------------------------- MODULE DhcpOptions ----------------------------
(***************************************************************************)
(* How the DHCP client finds an option in a message: _find_option of       *)
(* src/src/dhcp/dhcp.c, one action per iteration of its loop.              *)
(***************************************************************************)
EXTENDS Integers

CONSTANTS
    IndexMod,   \* the index is a byte: 256
    Cookie,     \* bytes of the magic cookie: 4
    Codes,      \* values of the bytes of a message
    Wanted,     \* the option that is looked for
    Limits      \* how many bytes of options the length of a message gives

\* A message shorter than its fixed part gives a number far above the size of
\* the options: the subtraction is of 16 bits.
ASSUME OptionsAssumption ==
    /\ Cookie \in Nat /\ IndexMod \in Nat /\ Cookie + 2 <= IndexMod
    /\ Codes \subseteq 0 .. IndexMod - 1 /\ Wanted \in Codes
    /\ Limits \subseteq Nat

VARIABLES
    options,    \* the bytes from the cookie on, as far as i + 1 reaches
    limit,      \* l
    i,
    searching,
    found       \* what the search returned: no index is NULL

optionVars == <<options, limit, i, searching, found>>

OptionsInit ==
    /\ options \in [0 .. IndexMod -> Codes]
    /\ limit \in Limits
    /\ i = Cookie /\ searching = TRUE /\ found = {}

\* Seeded bug: the two bytes before the value are not counted.
NextIndexShort(k) == (k + options[k + 1]) % IndexMod

\* i += 2 + opt_len, where i is a byte
NextIndex(k) == (k + 2 + options[k + 1]) % IndexMod

Return(indices) == searching' = FALSE /\ found' = indices /\ UNCHANGED i

FindOption ==
    /\ searching
    /\ \/ i >= limit /\ Return({})
       \/ i < limit /\ options[i] = Wanted /\ Return({i})
       \/ i < limit /\ options[i] /= Wanted /\ options[i + 1] = 0 /\ Return({})
       \/ /\ i < limit /\ options[i] /= Wanted /\ options[i + 1] /= 0
          /\ i' = NextIndex(i)
          /\ UNCHANGED <<searching, found>>
    /\ UNCHANGED <<options, limit>>

OptionsEnd == ~searching /\ UNCHANGED optionVars

OptionsNext == FindOption \/ OptionsEnd

\* Nothing can stop the loop but itself.
OptionsSpec == OptionsInit /\ [][OptionsNext]_optionVars /\ WF_optionVars(FindOption)

-----------------------------------------------------------------------------
(* Properties *)

\* Where the options begin that a reader with an unbounded index would visit.
Begins ==
    LET at[k \in Cookie .. IndexMod - 1] ==
            \/ k = Cookie
            \/ \E j \in Cookie .. k - 1 :
                /\ at[j] /\ options[j] /= Wanted /\ options[j + 1] /= 0
                /\ k = j + 2 + options[j + 1]
    IN {k \in Cookie .. IndexMod - 1 : k < limit /\ at[k]}

\* No option but the wanted one reaches past what a byte can index.
Indexable ==
    \A k \in Begins : \/ options[k] = Wanted \/ options[k + 1] = 0
                      \/ k + 2 + options[k + 1] < IndexMod

\* The search of a message whose options can be indexed ends, whatever its
\* length field makes of limit, and has found the first option that is wanted,
\* if it begins before the end and before an option without a value.
FindsOption == []<>(Indexable => ~searching /\ found = {k \in Begins : options[k] = Wanted})

\* dhcp.c:191: "Avoid inifinite loop."  An option whose length carries the index
\* round to one it has been at keeps the loop running for ever.
SearchAlwaysEnds == <>~searching

=============================================================================
