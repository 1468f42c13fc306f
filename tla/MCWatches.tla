----------------------------- MODULE MCWatches -----------------------------
(* Watch lists for clauses of two and three literals over three variables.    *)
EXTENDS Watches

SomeProblems ==
    {<< <<1, 2, 3>>, <<1, 2, -3>>, <<1, -2, 3>> >>,
     << <<1, 2, 3>>, <<-1, 2>>, <<-2, 3, 1>>, <<-1, -2, -3>> >>,
     << <<-1, 2>>, <<-1, 3>>, <<-2, -3, -1>> >>}

=============================================================================
