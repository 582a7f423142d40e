CONSTANTS
    Syms <- MCSyms
    MIdents <- MCMIdents
    Members <- MCMembers
    Addrs <- MCAddrs
    Types <- MCTypes
    Exps <- MCExps
    IdentOrder <- MCIdentOrder
    Annotations <- MCAnnotations
    Loc0 = Loc0
    None = None
SPECIFICATION RSpec
\* Rendering is a pure function: the consumer stops once the diagnostic exists.
CHECK_DEADLOCK FALSE
INVARIANTS
    MacroCallMessage
