\* Up to three services of up to two rules.
CONSTANTS
    Rules <- MCRules
    MaxServices = 3
    MaxRules = 2
SPECIFICATION Spec
INVARIANTS MatchExact BestFit
