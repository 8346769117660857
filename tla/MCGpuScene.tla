----------------------------- MODULE MCGpuScene -----------------------------
EXTENDS GpuScene

MCZero == [kind |-> "Opaque", visible |-> FALSE, shadows |-> FALSE, asset |-> 0,
           previous |-> 0]

\* The setters make every other input of this one.
MCDescriptors ==
    {[kind |-> "Opaque", visible |-> TRUE, casts_shadows |-> FALSE, asset |-> 1]}
=============================================================================
