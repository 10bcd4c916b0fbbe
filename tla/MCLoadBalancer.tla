--------------------------- MODULE MCLoadBalancer ---------------------------
EXTENDS LoadBalancer

\* One resolver holds the balancer; two resolvers hold it; one holds the
\* balancer and another one of its members.  Closed by a reload or by the
\* shutdown of the process.
MCSettings ==
  [exclusive: BOOLEAN,
   closeOrder: {<<Balancer>>, <<Balancer, Balancer>>, <<Balancer, 0>>}]
=============================================================================
