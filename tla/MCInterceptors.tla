--------------------------- MODULE MCInterceptors ---------------------------
\* Instances of Interceptors for TLC: interceptors in the orders that matter to
\* panics, errors and the counter, and the chain of example/logs/main.go.
EXTENDS Interceptors, TLC

ExampleChain == {<<"recover", "metrics", "trace", "logger">>}
SomeChains ==
    {<<"metrics", "recover", "trace", "limit">>,
     <<"logger", "counter", "limit", "trace">>,
     <<"trace", "logger", "metrics", "recover", "counter">>} \cup ExampleChain
RequestSymmetry == Permutations(Requests)
=============================================================================
