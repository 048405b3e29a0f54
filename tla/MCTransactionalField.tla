------------------------ MODULE MCTransactionalField ------------------------
EXTENDS TransactionalField

CONSTANT field1
=============================================================================
