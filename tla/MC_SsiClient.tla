------------------------------ MODULE MC_SsiClient ------------------------------
(* Responses of up to three chunks, two alerts before the response, and   *)
(* the exception classes of the upstream XrdSsiPbException.hpp, where      *)
(* PbException and XrdSsiException both derive from std::exception only.  *)
EXTENDS SsiClient

MCMaxChunks == 3
MCMaxAlerts == 2
MCPbExceptionIsXrdSsiException == FALSE
=============================================================================
