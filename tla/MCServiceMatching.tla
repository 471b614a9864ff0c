------------------------- MODULE MCServiceMatching -------------------------
EXTENDS ServiceMatching

Rule(h, p, t, o) == [header |-> h, json_pointer |-> p, match_type |-> t, object |-> o]

\* Two kinds of rule for one header, and a rule for a JSON pointer.
MCRules == {Rule(<<1>>, << >>, 0, <<1>>), Rule(<<1>>, << >>, 1, <<2>>),
            Rule(<< >>, <<3>>, 0, <<1>>)}

\* operator< tells these rules apart.
ASSUME MCRulesDistinct == RulesDistinct
=============================================================================
