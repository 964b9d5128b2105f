------------------------------ MODULE MCSeeding ------------------------------
\* Constants of the seeder's runs.
EXTENDS Seeding

CONSTANTS e1, e2

\* One seed, and two: a run may leave rows of an earlier one as they are.
OneOrTwoSeeds == {{e1}, {e1, e2}}
=============================================================================
