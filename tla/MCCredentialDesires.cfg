\* The CSR alone: its approval is torn down by the same steps.
CONSTANTS
    Desire = {"csr"}
    CSR = "csr"
SPECIFICATION LiveSpec
INVARIANT DeletedMeansGone
PROPERTIES RequestSettles
