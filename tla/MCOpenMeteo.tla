------------------------------ MODULE MCOpenMeteo ------------------------------
\* OpenMeteo for model checking: two locations on one parallel, asked for in
\* every documented way, and queries that name too little.
EXTENDS OpenMeteo

CONSTANTS north, east, west

Token(name, value) == [name |-> name, value |-> value]

SomeQueries == { <<Token("lat", north), Token("lon", east)>>,
                 <<Token("long", west), Token("other", east), Token("lat", north)>>,
                 <<Token("lat", north), Token("long", west), Token("lon", east)>>,
                 <<Token("other", north), Token("lat", north)>>,
                 << >> }
================================================================================
