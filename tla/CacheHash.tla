------------------------------- MODULE CacheHash -------------------------------
(***************************************************************************)
(* How a cache of the RRLLC tool spreads addresses over its sets.          *)
(***************************************************************************)
EXTENDS Integers, Bitwise

Chunk == 65536  \* 2^16

\* Cache::fast_hash: the exclusive or of the address's four 16-bit chunks.
fast_hash(address, modulo) ==
    LET chunk[i \in 0..3] ==
            (IF i = 0 THEN address
             ELSE IF i = 1 THEN address \div Chunk
             ELSE IF i = 2 THEN (address \div Chunk) \div Chunk
             ELSE ((address \div Chunk) \div Chunk) \div Chunk) % Chunk
    IN (((chunk[0] ^^ chunk[1]) ^^ chunk[2]) ^^ chunk[3]) % modulo

n_sets_per_bank(n_lines, n_banks, n_ways) == (n_lines \div n_banks) \div n_ways

\* The global index of the set an address goes to: its bank by the hash, its
\* set within the bank by the plain remainder.
SetGid(address, n_lines, n_banks, n_ways) ==
    LET n_sets == n_sets_per_bank(n_lines, n_banks, n_ways)
    IN fast_hash(address, n_banks) * n_sets + (address % n_sets)
=============================================================================
